---- MODULE Spec2Model ----
(***************************************************************************)
(* A model of the AIE8 repository's stateful components:                   *)
(*   - aimakerspace/text_utils.py: CharacterTextSplitter, TextFileLoader   *)
(*   - dynamic_arxiv_solution.py: fetch_arxiv_papers, create_dynamic_rag   *)
(*   - ragas_langgraph_sdg_optimized.py: the synthetic-data pipeline       *)
(*   - langgraph_agent_lib/agents.py, a2a_client.py: the agent graphs      *)
(*   - langgraph_agent_lib/guardrails.py: validate_input, validate_output, *)
(*     the guardrails node                                                 *)
(*   - app/tools.py: call_general_agent_via_a2a                            *)
(*   - configure_guardrails.py: the credential utility                     *)
(* Python strings are sequences of one-character strings, Python dicts are *)
(* functions on their key set, Python lists are sequences.                 *)
(***************************************************************************)
EXTENDS Integers, Sequences, FiniteSets, TLC

\* ------------------------------------------------------------------ bounds
\* longest text handed to split()
MaxLen == 5
\* chunk_size ranges over -MaxNeg..MaxSize, chunk_overlap likewise
MaxSize == 3
MaxNeg == 1
\* split_texts / split_texts_with_metadata: number of texts, length of each
MaxTexts == 2
MaxDocLen == 3
\* files in a directory, load calls on one loader
MaxFiles == 3
MaxLoads == 2
\* fetch_arxiv_papers calls in one process
MaxFetches == 3
\* documents handed to one pipeline run
MaxDocs == 2
\* records of each kind handed to one export
MaxExportRows == 2
\* model calls in one invocation of an agent
MaxModelCalls == 4
\* calls of the remote-delegation tool
MaxA2ACalls == 2
\* calls of validate_input / validate_output
MaxValidations == 2
\* runs of the credential utility
MaxCredRuns == 2

Chars == {"a", "b"}
\* the texts of the multi-text operations differ in length only
DocChars == {"a"}
Sizes == (0 - MaxNeg)..MaxSize

SeqsUpTo(S, n) == UNION {[1..k -> S] : k \in 0..n}

Min(a, b) == IF a < b THEN a ELSE b
Max(a, b) == IF a > b THEN a ELSE b

\* ------------------------------------------------- Python list/str helpers
\* s[lo:hi] of Python: a negative index counts from the end, both indices are
\* clamped to [0, len(s)], an empty range gives the empty string.
PyIndex(i, n) == IF i < 0 THEN Max(i + n, 0) ELSE Min(i, n)
PySlice(s, lo, hi) == SubSeq(s, PyIndex(lo, Len(s)) + 1, PyIndex(hi, Len(s)))

\* list(range(i, stop, step)) for step > 0, as the for loop walks it
RECURSIVE PyRange(_, _, _)
PyRange(i, stop, step) ==
  IF i >= stop THEN <<>> ELSE <<i>> \o PyRange(i + step, stop, step)

\* dict(m); m.update(u)
DictUpdate(m, u) ==
  [k \in (DOMAIN m) \cup (DOMAIN u) |-> IF k \in DOMAIN u THEN u[k] ELSE m[k]]

\* zip(a, b): stops at the shorter of the two
Zip(a, b) == [i \in 1..Min(Len(a), Len(b)) |-> <<a[i], b[i]>>]

RECURSIVE Flatten(_)
Flatten(ss) == IF ss = <<>> THEN <<>> ELSE Head(ss) \o Flatten(Tail(ss))

\* -------------------------------------------------- CharacterTextSplitter
NoSplitter == [chunk_size |-> 0, chunk_overlap |-> 0, built |-> FALSE]

\* the assert written with >= : an overlap equal to the size gets through
CtorAcceptsEqual(chunk_size, chunk_overlap) == chunk_size >= chunk_overlap

\* the assert of __init__
CtorAccepts(chunk_size, chunk_overlap) == chunk_size > chunk_overlap

\* split with the window one character too long: text[i : i + chunk_size + 1]
SplitTextLong(sp, t) ==
  LET starts == PyRange(0, Len(t), sp.chunk_size - sp.chunk_overlap)
  IN  [k \in 1..Len(starts) |-> PySlice(t, starts[k], starts[k] + sp.chunk_size + 1)]

\* CharacterTextSplitter.split
SplitTextNoTail(sp, t) ==
  LET starts == PyRange(0, Len(t) - sp.chunk_overlap, sp.chunk_size - sp.chunk_overlap)
  IN  [k \in 1..Len(starts) |-> PySlice(t, starts[k], starts[k] + sp.chunk_size)]
SplitText(sp, t) ==
  LET starts == PyRange(0, Len(t), sp.chunk_size - sp.chunk_overlap)
  IN  [k \in 1..Len(starts) |-> PySlice(t, starts[k], starts[k] + sp.chunk_size)]

\* CharacterTextSplitter.split_texts
SplitTexts(sp, ts) == Flatten([i \in 1..Len(ts) |-> SplitText(sp, ts[i])])

\* the metadata records split_texts_with_metadata builds for one text
ChunkMetas(cs, meta) ==
  [j \in 1..Len(cs) |->
     DictUpdate(meta, [chunk_index |-> j - 1, total_chunks |-> Len(cs),
                       chunk_size |-> Len(cs[j])])]

\* CharacterTextSplitter.split_texts_with_metadata:
\* <<chunks, chunk_metadata, the caller's metadata list after the call>>.
\* Every record is built on meta.copy(), so the caller's maps stay as passed.
SplitTextsWithMetadata(sp, ts, ms) ==
  LET pairs == Zip(ts, ms)
      per == [i \in 1..Len(pairs) |-> SplitText(sp, pairs[i][1])]
  IN  <<Flatten(per),
        Flatten([i \in 1..Len(pairs) |-> ChunkMetas(per[i], pairs[i][2])]),
        ms>>

\* metadata maps a caller may pass: a loader-style record, and one that
\* already carries a chunk_index (the output of an earlier split)
MetaSet == { [source |-> 1], [source |-> 2, chunk_index |-> 7] }

\* ---------------------------------------------------------- TextFileLoader
\* A path is a sequence of segments, the last one the extension if there is
\* one: <<"a", ".txt">> is a.txt.
EndsWith(p, suffix) == Len(p) > 0 /\ p[Len(p)] = suffix

\* How reading a file goes: "none" (no error), "read" (open(), read() or the
\* PDF parser raises: an unreadable or corrupt file), "stat" (the file is
\* read, then os.path.getsize raises: the file went away in between).
Faults == {"none", "read", "stat"}
PageCounts == {1, 2}
TxtName == <<"a", ".txt">>
PdfName == <<"b", ".pdf">>
OtherName == <<"c", ".md">>
DirName == <<"d">>

\* the files a path or a directory entry can be
FileEntries ==
  {[name |-> TxtName, fault |-> f, pages |-> 0, size |-> 1] : f \in Faults}
  \cup {[name |-> PdfName, fault |-> "none", pages |-> n, size |-> 2] : n \in PageCounts}
  \cup {[name |-> PdfName, fault |-> f, pages |-> 1, size |-> 2] : f \in {"read", "stat"}}
  \cup {[name |-> OtherName, fault |-> "none", pages |-> 0, size |-> 1]}

\* f.read() of a text file
TxtContent(f) == <<f.name[1]>>
\* the pages' extract_text(), each followed by "\n"
RECURSIVE PdfContent(_, _)
PdfContent(f, n) == IF n = 0 THEN <<>> ELSE PdfContent(f, n - 1) \o <<f.name[1], "\n">>

TxtMeta(f, src, now) ==
  [source |-> src, file_type |-> "txt", file_size |-> f.size, created_at |-> now]
PdfMeta(f, src, now) ==
  [source |-> src, file_type |-> "pdf", file_size |-> f.size,
   page_count |-> f.pages, created_at |-> now]

\* A loader in the middle of a call: its two lists, the exception in flight
\* ("ok" when none), the warnings printed.
\* The body of load_file, and of the .txt branch of load_directory: the
\* document is appended before os.path.getsize is evaluated for the metadata.
ReadTxt(L, f, src, now) ==
  IF f.fault = "read" THEN [L EXCEPT !.status = "OSError"]
  ELSE LET L1 == [L EXCEPT !.documents = Append(@, TxtContent(f))]
       IN  IF f.fault = "stat" THEN [L1 EXCEPT !.status = "OSError"]
           ELSE [L1 EXCEPT !.metadata = Append(@, TxtMeta(f, src, now))]

\* The try body of load_pdf, and of the .pdf branch of load_directory
ReadPdf(L, f, src, now) ==
  IF f.fault = "read" THEN [L EXCEPT !.status = "Exception"]
  ELSE LET L1 == [L EXCEPT !.documents = Append(@, PdfContent(f, f.pages))]
       IN  IF f.fault = "stat" THEN [L1 EXCEPT !.status = "Exception"]
           ELSE [L1 EXCEPT !.metadata = Append(@, PdfMeta(f, src, now))]

\* load_file
LoadFile(L, f, src, now) == ReadTxt(L, f, src, now)

\* load_pdf: every exception of the body becomes a ValueError
LoadPdf(L, f, src, now) ==
  LET r == ReadPdf(L, f, src, now)
  IN  IF r.status = "ok" THEN r ELSE [r EXCEPT !.status = "ValueError"]

\* the except branch of load_directory's .pdf case raising like load_pdf does
DirPdfFailedRaises(r, src) == [r EXCEPT !.status = "ValueError"]

\* the except branch of load_directory's .pdf case: print a warning, go on
DirPdfFailed(r, src) ==
  [r EXCEPT !.status = "ok", !.warnings = Append(@, src)]

\* load_directory over the files os.walk lists
RECURSIVE LoadDirectory(_, _, _, _)
LoadDirectory(L, dir, files, now) ==
  IF files = <<>> \/ L.status # "ok" THEN L
  ELSE LET f == Head(files)
           src == dir \o f.name
           r == IF EndsWith(f.name, ".txt") THEN ReadTxt(L, f, src, now)
                ELSE IF EndsWith(f.name, ".pdf")
                  THEN LET q == ReadPdf(L, f, src, now)
                       IN  IF q.status = "ok" THEN q ELSE DirPdfFailed(q, src)
                  ELSE L
       IN  LoadDirectory(r, dir, Tail(files), now)

\* load without the final else of the extension test: a file that is not a
\* .pdf is read as text
LoadOtherAsText(L, p, world, now) ==
  IF world.kind = "dir" THEN LoadDirectory(L, p, world.files, now)
  ELSE IF world.kind = "file"
    THEN IF EndsWith(p, ".pdf") THEN LoadPdf(L, world.files[1], p, now)
         ELSE LoadFile(L, world.files[1], p, now)
  ELSE [L EXCEPT !.status = "ValueError"]

\* load: what is at path p decides
Load(L, p, world, now) ==
  IF world.kind = "dir" THEN LoadDirectory(L, p, world.files, now)
  ELSE IF world.kind = "file"
    THEN IF EndsWith(p, ".txt") THEN LoadFile(L, world.files[1], p, now)
         ELSE IF EndsWith(p, ".pdf") THEN LoadPdf(L, world.files[1], p, now)
         ELSE [L EXCEPT !.status = "ValueError"]
  ELSE [L EXCEPT !.status = "ValueError"]

\* the method load hands the path to
Dispatch(p, world) ==
  IF world.kind = "dir" THEN "load_directory"
  ELSE IF world.kind = "file" /\ EndsWith(p, ".txt") THEN "load_file"
  ELSE IF world.kind = "file" /\ EndsWith(p, ".pdf") THEN "load_pdf"
  ELSE "none"

\* ------------------------------------------------------ fetch_arxiv_papers
\* Lines and field values are sequences of tokens: a line prefix ("Title:"),
\* a blank (" "), or a word. The @tool decorator is taken to pass calls
\* through to the function.
StartsWith(line, prefix) == Len(line) > 0 /\ line[1] = prefix
\* line.replace(prefix, ''): every occurrence goes
Replace(line, prefix) == SelectSeq(line, LAMBDA t : t # prefix)
\* str.strip()
RECURSIVE LStrip(_)
LStrip(x) == IF x # <<>> /\ Head(x) = " " THEN LStrip(Tail(x)) ELSE x
RECURSIVE RStrip(_)
RStrip(x) ==
  IF x # <<>> /\ x[Len(x)] = " " THEN RStrip(SubSeq(x, 1, Len(x) - 1)) ELSE x
Strip(x) == RStrip(LStrip(x))

EmptyDict == <<>>
\* current_paper.get('title'): a missing key and an empty string are falsy
Truthy(d, key) == key \in DOMAIN d /\ d[key] # <<>>

\* one turn of the parsing loop on [papers, current_paper]
ParseLine(acc, line) ==
  IF StartsWith(line, "Title:")
    THEN [acc EXCEPT !.current =
            DictUpdate(@, [title |-> Strip(Replace(line, "Title:"))])]
  ELSE IF StartsWith(line, "Authors:")
    THEN [acc EXCEPT !.current =
            DictUpdate(@, [authors |-> Strip(Replace(line, "Authors:"))])]
  ELSE IF StartsWith(line, "Summary:")
    THEN LET cur == DictUpdate(acc.current,
                               [summary |-> Strip(Replace(line, "Summary:"))])
         IN  IF Truthy(cur, "title")
               THEN [papers |-> Append(acc.papers, cur), current |-> EmptyDict]
               ELSE [acc EXCEPT !.current = cur]
  ELSE acc

RECURSIVE ParseLoop(_, _)
ParseLoop(acc, lines) ==
  IF lines = <<>> THEN acc ELSE ParseLoop(ParseLine(acc, Head(lines)), Tail(lines))

\* the papers list after the loop
ParsePapers(lines) == ParseLoop([papers |-> <<>>, current |-> EmptyDict], lines).papers

Digit(n) == <<"0", "1", "2", "3", "4", "5", "6", "7", "8", "9">>[n + 1]

\* the Document built for papers[i]; paper['authors'] of a record without
\* that key raises KeyError
HasFields(paper) == {"title", "authors", "summary"} \subseteq DOMAIN paper
ToDocument(paper, i) ==
  [page_content |-> <<"Title: ">> \o paper.title \o <<"\nAuthors: ">> \o paper.authors
                      \o <<"\nSummary: ">> \o paper.summary,
   metadata |-> [title |-> paper.title, authors |-> paper.authors,
                 source |-> <<"arxiv_paper_", Digit(i)>>]]

\* f"{query}_{max_papers}"
CacheKey(query, max_papers) == query \o <<"_", Digit(max_papers)>>

\* the cache test skipped: every call searches
CacheNeverHit(cache, key) == FALSE

\* cache_key in paper_cache
CacheHit(cache, key) == key \in DOMAIN cache

\* paper_cache[cache_key] = documents
CacheStoreNonEmpty(cache, key, docs) ==
  IF docs = <<>> THEN cache
  ELSE [k \in (DOMAIN cache) \cup {key} |-> IF k = key THEN docs ELSE cache[k]]
CacheStore(cache, key, docs) ==
  [k \in (DOMAIN cache) \cup {key} |-> IF k = key THEN docs ELSE cache[k]]

\* an except clause that prints and raises again
OnExceptionReraise(cache, what) ==
  [ret |-> <<>>, cache |-> cache, searched |-> TRUE, caught |-> what, raised |-> TRUE]

\* except Exception: print, return []
OnException(cache, what) ==
  [ret |-> <<>>, cache |-> cache, searched |-> TRUE, caught |-> what, raised |-> FALSE]

\* fetch_arxiv_papers(query, max_papers) when arxiv_tool.run(query) does what
\* search says: raises, or returns the lines search.lines
FetchArxivPapers(cache, query, max_papers, search) ==
  LET key == CacheKey(query, max_papers)
  IN  IF CacheHit(cache, key)
        THEN [ret |-> cache[key], cache |-> cache, searched |-> FALSE,
              caught |-> "none", raised |-> FALSE]
      ELSE IF search.raised THEN OnException(cache, "search")
      ELSE LET papers == PySlice(ParsePapers(search.lines), 0, max_papers)
           IN  IF \E i \in 1..Len(papers) : ~HasFields(papers[i])
                 THEN OnException(cache, "KeyError")
                 ELSE LET docs == [i \in 1..Len(papers) |-> ToDocument(papers[i], i)]
                      IN  [ret |-> docs, cache |-> CacheStore(cache, key, docs),
                           searched |-> TRUE, caught |-> "none", raised |-> FALSE]

NoPapersMessage == "No papers found for this topic."

\* create_dynamic_rag without the test for an empty paper list
RagWithoutEmptyTest(papers, outcome) ==
  IF outcome = "index_fails"
    THEN [answer |-> "", indexed |-> TRUE, chatted |-> FALSE, raised |-> TRUE]
  ELSE IF outcome = "chat_fails"
    THEN [answer |-> "", indexed |-> TRUE, chatted |-> TRUE, raised |-> TRUE]
  ELSE [answer |-> "answer", indexed |-> TRUE, chatted |-> TRUE, raised |-> FALSE]

\* create_dynamic_rag after the fetch: papers is what the fetch returned,
\* outcome how the vector store and the chat model behave
DynamicRag(papers, outcome) ==
  IF papers = <<>>
    THEN [answer |-> NoPapersMessage, indexed |-> FALSE, chatted |-> FALSE,
          raised |-> FALSE]
  ELSE IF outcome = "index_fails"
    THEN [answer |-> "", indexed |-> TRUE, chatted |-> FALSE, raised |-> TRUE]
  ELSE IF outcome = "chat_fails"
    THEN [answer |-> "", indexed |-> TRUE, chatted |-> TRUE, raised |-> TRUE]
  ELSE [answer |-> "answer", indexed |-> TRUE, chatted |-> TRUE, raised |-> FALSE]

\* what the paper search can answer
PaperLines(id) ==
  << <<"Published:", " ", "2024">>, <<"Title:", " ", "t", id>>,
     <<"Authors:", " ", "a", id>>, <<"Summary:", " ", "s", id>> >>
NoAuthorsLines(id) == << <<"Title:", " ", "t", id>>, <<"Summary:", " ", "s", id>> >>
NoTitleLines(id) == << <<"Authors:", " ", "a", id>>, <<"Summary:", " ", "s", id>> >>
SearchTexts ==
  { << <<"No", " ", "good", " ", "Arxiv", " ", "Result", " ", "was", " ", "found">> >>,
    NoTitleLines("1"),
    PaperLines("1"),
    PaperLines("1") \o PaperLines("2"),
    PaperLines("1") \o PaperLines("2") \o PaperLines("3"),
    NoAuthorsLines("1"),
    PaperLines("1") \o NoAuthorsLines("2") }
SearchOutcomes ==
  {[raised |-> TRUE, lines |-> <<>>]} \cup {[raised |-> FALSE, lines |-> t] : t \in SearchTexts}
NoSearch == [raised |-> FALSE, lines |-> <<>>]
RagOutcomes == {"ok", "index_fails", "chat_fails"}
Queries == {<<"q">>, <<"q", "_", "1">>}
MaxPapersChoices == {1, 2}
DefaultMaxPapers == 2
Keys == {CacheKey(q, m) : q \in Queries, m \in MaxPapersChoices}

\* ------------------------------------------- synthetic data generation (SDG)
\* ragas_langgraph_sdg_optimized.py.  A prompt response is a sequence of
\* tokens in which "\n" ends a line and " " is white space; the scores 1.0
\* and 0.0 are written 1 and 0.

\* SDGConfig(): the dataclass defaults
SDGDefaultChunkSize == 1000
SDGDefaultChunkOverlap == 100
SDGDefaultMaxDocuments == 10
SDGDefaultQuestionsPerDocument == 3
SDGDefaults ==
  [chunk_size |-> SDGDefaultChunkSize, chunk_overlap |-> SDGDefaultChunkOverlap,
   max_documents |-> SDGDefaultMaxDocuments,
   questions_per_document |-> SDGDefaultQuestionsPerDocument]

\* create_optimized_config: its defaults
OptimizedChunkSize == 1000
OptimizedChunkOverlap == 100
OptimizedMaxDocuments == 5
OptimizedQuestionsPerDocument == 2
OptimizedDefaults ==
  [chunk_size |-> OptimizedChunkSize, chunk_overlap |-> OptimizedChunkOverlap,
   max_documents |-> OptimizedMaxDocuments,
   questions_per_document |-> OptimizedQuestionsPerDocument]

\* SDGConfig(**kwargs): the dataclass assigns every field given, unchecked
SDGConfig(kwargs) == DictUpdate(SDGDefaults, kwargs)

\* create_optimized_config(**kwargs): {**defaults, **kwargs}
CreateOptimizedConfig(kwargs) == SDGConfig(DictUpdate(OptimizedDefaults, kwargs))

\* str.split(sep) on a token sequence
RECURSIVE SplitOn(_, _)
SplitOn(s, sep) ==
  IF s = <<>> THEN << <<>> >>
  ELSE LET r == SplitOn(Tail(s), sep)
       IN  IF Head(s) = sep THEN << <<>> >> \o r
           ELSE << <<Head(s)>> \o Head(r) >> \o Tail(r)

\* sep.join(parts)
RECURSIVE Join(_, _)
Join(parts, sep) ==
  IF parts = <<>> THEN <<>>
  ELSE IF Len(parts) = 1 THEN parts[1]
  ELSE parts[1] \o sep \o Join(Tail(parts), sep)

\* [q.strip() for q in response.content.split('\n') if q.strip()]
ParseQuestions(content) ==
  LET lines == SplitOn(content, "\n")
      stripped == [i \in 1..Len(lines) |-> Strip(lines[i])]
  IN  SelectSeq(stripped, LAMBDA q : q # <<>>)

\* the except clause of a stage's loop: log, continue with what was collected
ItemFailedResets(acc) == <<>>
ItemFailed(acc) == acc

\* _generate_simple_questions_node: the loop over documents[:max_documents];
\* responses[i] is what the model call for document i did
RECURSIVE QuestionLoop(_, _, _, _, _)
QuestionLoop(acc, n, responses, cfg, i) ==
  IF i > n THEN acc
  ELSE IF responses[i].raised
    THEN QuestionLoop(ItemFailed(acc), n, responses, cfg, i + 1)
    ELSE QuestionLoop(
           acc \o PySlice(ParseQuestions(responses[i].content), 0,
                          cfg.questions_per_document),
           n, responses, cfg, i + 1)

LimitDocuments(docs, cfg) == PySlice(docs, 0, cfg.max_documents)

GenerateSimpleQuestions(docs, cfg, responses) ==
  QuestionLoop(<<>>, Len(LimitDocuments(docs, cfg)), responses, cfg, 1)

\* EvolvedQuestion(question=response.content.strip(), evolution_type=kind,
\* original_question=question); id is a fresh uuid4
EvolvedQuestion(id, content, kind, question) ==
  [id |-> id, question |-> Strip(content), evolution_type |-> kind,
   original_question |-> question]

\* the loop of an evolution node over simple_questions; acc.next is the next
\* unused identifier
RECURSIVE EvolveLoop(_, _, _, _, _)
EvolveLoop(acc, kind, qs, responses, i) ==
  IF i > Len(qs) THEN acc
  ELSE IF responses[i].raised
    THEN EvolveLoop([acc EXCEPT !.list = ItemFailed(@)], kind, qs, responses, i + 1)
    ELSE EvolveLoop(
           [list |-> Append(acc.list,
                            EvolvedQuestion(acc.next, responses[i].content, kind, qs[i])),
            next |-> acc.next + 1],
           kind, qs, responses, i + 1)

\* the three evolution nodes: simple starts from [], the others from the
\* collection in the state
SimpleEvolution(qs, next, responses) ==
  EvolveLoop([list |-> <<>>, next |-> next], "simple", qs, responses, 1)
MultiContextEvolutionFirst(qs, evolved, next, responses) ==
  LET r == EvolveLoop([list |-> <<>>, next |-> next], "multi_context", qs, responses, 1)
  IN  [r EXCEPT !.list = @ \o evolved]
MultiContextEvolution(qs, evolved, next, responses) ==
  EvolveLoop([list |-> evolved, next |-> next], "multi_context", qs, responses, 1)
ReasoningEvolutionFresh(qs, evolved, next, responses) ==
  EvolveLoop([list |-> <<>>, next |-> next], "reasoning", qs, responses, 1)
ReasoningEvolution(qs, evolved, next, responses) ==
  EvolveLoop([list |-> evolved, next |-> next], "reasoning", qs, responses, 1)

\* doc.metadata.get('source', 'unknown')
SourceOf(doc) == IF "source" \in DOMAIN doc.metadata THEN doc.metadata.source ELSE "unknown"

\* QuestionContext(question_id, context, relevance_score=1.0, source_documents)
QuestionContext(q, docs) ==
  [question_id |-> q.id,
   context |-> Join([i \in 1..Len(docs) |-> docs[i].page_content], <<"\n\n">>),
   relevance_score |-> 1,
   source_documents |-> [i \in 1..Len(docs) |-> SourceOf(docs[i])]]

\* _generate_contexts_node: retrievals[i] is what retriever.invoke did for
\* evolved question i
RECURSIVE ContextLoop(_, _, _, _)
ContextLoop(acc, evolved, retrievals, i) ==
  IF i > Len(evolved) THEN acc
  ELSE IF retrievals[i].raised
    THEN ContextLoop(ItemFailed(acc), evolved, retrievals, i + 1)
    ELSE ContextLoop(Append(acc, QuestionContext(evolved[i], retrievals[i].docs)),
                     evolved, retrievals, i + 1)
GenerateContexts(evolved, retrievals) == ContextLoop(<<>>, evolved, retrievals, 1)

\* {rec[key]: rec for rec in recs}: a later record replaces an earlier one
RECURSIVE DictOf(_, _)
DictOf(recs, key) ==
  IF recs = <<>> THEN EmptyDict
  ELSE LET r == recs[Len(recs)]
           rest == DictOf(SubSeq(recs, 1, Len(recs) - 1), key)
       IN  [k \in DOMAIN rest \cup {r[key]} |-> IF k = r[key] THEN r ELSE rest[k]]

\* context_map.get(evolved_q.id, "")
ContextForAlways(contexts, id) == <<"x">>
ContextFor(contexts, id) ==
  LET context_map == DictOf(contexts, "question_id")
  IN  IF id \in DOMAIN context_map THEN context_map[id].context ELSE <<>>

\* QuestionAnswer(question_id, answer=response.content.strip(), confidence 1.0)
QuestionAnswer(q, content) ==
  [question_id |-> q.id, answer |-> Strip(content), confidence_score |-> 1]

\* _generate_answers_node: responses[i] is what the model call for evolved
\* question i did; acc.asked lists the (question, context) pairs sent
RECURSIVE AnswerLoop(_, _, _, _, _)
AnswerLoop(acc, evolved, contexts, responses, i) ==
  IF i > Len(evolved) THEN acc
  ELSE LET sent == [question_id |-> evolved[i].id,
                    context |-> ContextFor(contexts, evolved[i].id)]
           asked == Append(acc.asked, sent)
       IN  IF responses[i].raised
             THEN AnswerLoop([list |-> ItemFailed(acc.list), asked |-> asked],
                             evolved, contexts, responses, i + 1)
             ELSE AnswerLoop([list |-> Append(acc.list,
                                              QuestionAnswer(evolved[i], responses[i].content)),
                              asked |-> asked],
                             evolved, contexts, responses, i + 1)
GenerateAnswers(evolved, contexts, responses) ==
  AnswerLoop([list |-> <<>>, asked |-> <<>>], evolved, contexts, responses, 1)

\* dict.get(key, default)
Get(d, key, default) == IF key \in DOMAIN d THEN d[key] ELSE default

\* answers_map.get(question_id, {}) / contexts_map.get(question_id, {})
LookupAny(map, id) ==
  IF DOMAIN map = {} THEN EmptyDict ELSE map[CHOOSE k \in DOMAIN map : TRUE]
Lookup(map, id) == Get(map, id, EmptyDict)

NoAnswer == "No answer"
NoContext == "No context"

\* _create_combined_dataset: one combined_item per evolved question
CombinedItem(question, answers_map, contexts_map) ==
  LET question_id == question.id
  IN  [id |-> question_id,
       evolution_type |-> question.evolution_type,
       question |-> question.question,
       original_question |-> Get(question, "original_question", <<>>),
       answer |-> Get(Lookup(answers_map, question_id), "answer", NoAnswer),
       context |-> Get(Lookup(contexts_map, question_id), "context", NoContext),
       confidence_score |-> Get(Lookup(answers_map, question_id), "confidence_score", 0),
       relevance_score |-> Get(Lookup(contexts_map, question_id), "relevance_score", 0),
       source_documents |-> Get(Lookup(contexts_map, question_id), "source_documents", <<>>)]

CreateCombinedDataset(synthetic_data) ==
  LET answers_map == DictOf(Get(synthetic_data, "answers", <<>>), "question_id")
      contexts_map == DictOf(Get(synthetic_data, "contexts", <<>>), "question_id")
      questions == Get(synthetic_data, "evolved_questions", <<>>)
  IN  [i \in 1..Len(questions) |-> CombinedItem(questions[i], answers_map, contexts_map)]

\* generate_synthetic_data: the output dict built from the final state
WithMetadata(rec) == [k \in DOMAIN rec \cup {"metadata"} |->
                        IF k = "metadata" THEN EmptyDict ELSE rec[k]]
FormatOutput(evolved, ans, ctx, stats) ==
  [evolved_questions |-> [i \in 1..Len(evolved) |-> WithMetadata(evolved[i])],
   answers |-> [i \in 1..Len(ans) |-> WithMetadata(ans[i])],
   contexts |-> [i \in 1..Len(ctx) |-> WithMetadata(ctx[i])],
   stats |-> stats]

\* an external call that raises
Raised == [raised |-> TRUE]

\* ------------------------------------------------------------ agent graphs
\* langgraph_agent_lib/agents.py and app/a2a_client.py.  A message is a record
\* with its type and, for a model message, the tool calls it requests.
HumanMessage == [type |-> "human"]
AIMessage(calls) == [type |-> "ai", tool_calls |-> calls]
ToolMessage(call) == [type |-> "tool", name |-> call]
END == "END"

\* getattr(last_message, "tool_calls", None), as a truth value
RequestsTools(message) == Get(message, "tool_calls", <<>>) # <<>>

\* create_langgraph_agent: should_continue
ShouldContinueAlwaysAction(msgs) == "action"
ShouldContinue(msgs) ==
  IF RequestsTools(msgs[Len(msgs)]) THEN "action" ELSE END

\* build_simple_agent: lambda state: "tools" if ... tool_calls else END
SimpleShouldContinue(msgs) ==
  IF msgs[Len(msgs)].tool_calls # <<>> THEN "tools" ELSE END

\* create_guardrails_agent: should_continue
GuardrailsShouldContinue(msgs) ==
  IF RequestsTools(msgs[Len(msgs)]) THEN "action" ELSE "output_validation"

\* create_guardrails_agent: route_after_input_validation
RouteAfterInputValidationOpen(state) == "agent"
RouteAfterInputValidation(state) ==
  IF Get(state, "validation_failed", FALSE) THEN END ELSE "agent"

\* create_guardrails_agent: route_after_output_validation
RouteAfterOutputValidationUnbounded(state, max_refinements) ==
  IF Get(state, "validation_failed", FALSE) /\ Get(state, "needs_refinement", FALSE)
    THEN "agent" ELSE END
RouteAfterOutputValidationLate(state, max_refinements) ==
  IF Get(state, "validation_failed", FALSE) /\ Get(state, "needs_refinement", FALSE)
       /\ Get(state, "refinement_count", 0) <= max_refinements
    THEN "agent" ELSE END
RouteAfterOutputValidation(state, max_refinements) ==
  IF Get(state, "validation_failed", FALSE) /\ Get(state, "needs_refinement", FALSE)
       /\ Get(state, "refinement_count", 0) < max_refinements
    THEN "agent" ELSE END

\* the entry point and the name of the tool node of each builder's graph
Builders == {"create_langgraph_agent", "build_simple_agent", "create_guardrails_agent"}
EntryOf(b) == IF b = "create_guardrails_agent" THEN "input_validation" ELSE "agent"
ToolNodeOf(b) == IF b = "build_simple_agent" THEN "tools" ELSE "action"
\* the conditional edge that leaves the agent node
AfterAgent(b, msgs) ==
  CASE b = "create_langgraph_agent" -> ShouldContinue(msgs)
    [] b = "build_simple_agent" -> SimpleShouldContinue(msgs)
    [] b = "create_guardrails_agent" -> GuardrailsShouldContinue(msgs)

\* ToolNode(tools): one tool message per requested call
ToolNode(msgs) ==
  LET calls == msgs[Len(msgs)].tool_calls
  IN  msgs \o [i \in 1..Len(calls) |-> ToolMessage(calls[i])]

\* create_input_validation_node: in strict mode a failing input marks the
\* state failed; in non-strict mode the failure does not block
InputValidation(state, passed, strict_mode) ==
  DictUpdate(state, [validation_failed |-> (~passed /\ strict_mode)])

\* create_output_validation_node: in strict mode a failing output marks the
\* state failed and for refinement, and counts the attempt
OutputValidation(state, passed, strict_mode) ==
  IF ~passed /\ strict_mode
    THEN DictUpdate(state, [validation_failed |-> TRUE, needs_refinement |-> TRUE,
                            refinement_count |-> Get(state, "refinement_count", 0) + 1])
    ELSE DictUpdate(state, [validation_failed |-> FALSE, needs_refinement |-> FALSE])

\* what the model answers: an exception, a plain message, or tool calls
ModelResponses ==
  { Raised,
    [raised |-> FALSE, message |-> AIMessage(<<>>)],
    [raised |-> FALSE, message |-> AIMessage(<<"t1">>)],
    [raised |-> FALSE, message |-> AIMessage(<<"t1", "t2">>)] }
DefaultMaxRefinements == 3
GuardrailsParams ==
  { [strict_mode |-> sm, max_refinements |-> mr] :
      sm \in BOOLEAN, mr \in {0, 1, 2, DefaultMaxRefinements} }
NoParams == [strict_mode |-> TRUE, max_refinements |-> DefaultMaxRefinements]

\* ------------------------------------------------------ remote delegation
\* app/tools.py.  What the remote side does in one call: the step that raises
\* ("none" when all succeed), whether the error is a timeout, and whether the
\* result carries an artifact.
A2ASteps == {"none", "session", "card", "send"}
A2AWorlds ==
  { [fails |-> f, timeout |-> t, artifact |-> a] :
      f \in A2ASteps, t \in BOOLEAN, a \in BOOLEAN }
Returned(value) == [raised |-> FALSE, error |-> "none", ret |-> value]
Raises(error) == [raised |-> TRUE, error |-> error, ret |-> "none"]
ErrorOf(world) == IF world.timeout THEN "TimeoutException" ELSE "ConnectError"

\* _call: open the session, resolve the card, send the message, read the result
A2ACall(query, world) ==
  IF world.fails \in {"session", "card", "send"}
    THEN Raises(ErrorOf(world))
    ELSE IF world.artifact
           THEN Returned("artifact_text")
           ELSE Returned("str_result")

\* call_general_agent_via_a2a: return asyncio.run(_call())
CallGeneralAgentViaA2A(query, world) == A2ACall(query, world)

\* --------------------------------------------------- validation operations
\* langgraph_agent_lib/guardrails.py.  What guard.validate does with a text:
\* it raises, or it gives a result with validation_passed and, when the result
\* has the attribute, validated_output.
GuardErrors == {"ValidationError", "RuntimeError"}
GuardOutcomes ==
  { [raises |-> "none", validation_passed |-> vp, validated_output |-> vo] :
      vp \in BOOLEAN, vo \in {"absent", "fixed"} }
  \cup { [raises |-> e, validation_passed |-> FALSE, validated_output |-> "absent"] :
           e \in GuardErrors }
NoGuard == [raises |-> "absent", validation_passed |-> FALSE, validated_output |-> "absent"]
None == "None"

\* the except clauses of validate_input / validate_output: a RuntimeError is
\* raised again as it is; any other error is wrapped when raise_on_failure,
\* and returned as a failed outcome otherwise
OnGuardError(error, text, raise_on_failure) ==
  IF error = "RuntimeError"
    THEN Raises("RuntimeError")
    ELSE IF raise_on_failure
           THEN Raises("RuntimeError")
           ELSE Returned([validation_passed |-> FALSE, validated_output |-> text,
                          error |-> error])

\* the try block: the call of the guard, the result dictionary, and the raise
\* on a failed result
Validate(outcome, text, raise_on_failure) ==
  IF outcome.raises # "none"
    THEN OnGuardError(outcome.raises, text, raise_on_failure)
    ELSE IF ~outcome.validation_passed /\ raise_on_failure
           THEN OnGuardError("RuntimeError", text, raise_on_failure)
           ELSE Returned([validation_passed |-> outcome.validation_passed,
                          validated_output |->
                            IF outcome.validated_output # "absent"
                              THEN outcome.validated_output ELSE text,
                          error |-> None])

\* validate_input(guard, user_input, raise_on_failure)
ValidateInput(outcome, user_input, raise_on_failure) ==
  Validate(outcome, user_input, raise_on_failure)

\* validate_output(guard, agent_response, context, raise_on_failure): the
\* context only changes the arguments the guard is called with
ValidateOutput(outcome, agent_response, context, raise_on_failure) ==
  Validate(outcome, agent_response, raise_on_failure)

\* ------------------------------------------------------- the guardrails node
\* create_guardrails_node.  Its messages carry a content; a guard that was not
\* given (None) is NoGuard.
ExcerptLength == 100
Excerpt(content) == PySlice(content, 0, ExcerptLength)
ShortContent == <<"m">>
LongContent == [i \in 1..(ExcerptLength + 1) |-> "x"]
Message(type, content) == [type |-> type, content |-> content]
NodeOutcome(r, calls) ==
  [raised |-> r.raised, error |-> r.error, ret |-> r.ret, calls |-> calls]

\* except Exception: raise in strict mode, else record an error entry
OnNodeErrorRecorded(validation_results, error, strict_mode) ==
  Returned([validation_results |->
              Append(validation_results,
                     [type |-> "error", passed |-> FALSE, error |-> error])])
OnNodeError(validation_results, error, strict_mode) ==
  IF strict_mode
    THEN Raises(error)
    ELSE Returned([validation_results |->
                     Append(validation_results,
                            [type |-> "error", passed |-> FALSE, error |-> error])])

\* one branch of the try block: the validation, then the entry appended
NodeCheck(kind, result, content, strict_mode) ==
  IF result.raised
    THEN OnNodeError(<<>>, result.error, strict_mode)
    ELSE Returned([validation_results |->
                     <<[type |-> kind, passed |-> result.ret.validation_passed,
                        message |-> Excerpt(content)]>>])

\* guardrails_node(state): the outcome and the guard calls it made
GuardrailsNode(msgs, input_guard, output_guard, strict_mode) ==
  IF msgs = <<>>
    THEN NodeOutcome(Returned([validation_results |-> <<>>]), <<>>)
    ELSE LET last_message == msgs[Len(msgs)]
         IN  IF last_message.type = "human" /\ input_guard # NoGuard
               THEN NodeOutcome(
                      NodeCheck("input",
                                ValidateInput(input_guard, last_message.content, strict_mode),
                                last_message.content, strict_mode),
                      <<[guard |-> "input", text |-> last_message.content]>>)
             ELSE IF last_message.type = "ai" /\ output_guard # NoGuard
               THEN NodeOutcome(
                      NodeCheck("output",
                                ValidateOutput(output_guard, last_message.content, None,
                                               strict_mode),
                                last_message.content, strict_mode),
                      <<[guard |-> "output", text |-> last_message.content]>>)
             ELSE NodeOutcome(Returned([validation_results |-> <<>>]), <<>>)

\* the histories the node is run on
Contents == {ShortContent, LongContent}
NodeHistories ==
  {<<>>}
  \cup { <<Message("human", c)>> : c \in Contents }
  \cup { <<Message("human", ShortContent), Message("ai", c)>> : c \in Contents }
  \cup { <<Message("human", LongContent), Message("ai", ShortContent),
           Message("tool", ShortContent)>> }
Guards == GuardOutcomes \cup {NoGuard}

\* ------------------------------------------------------ credential utility
\* configure_guardrails.py.  Strings are character sequences; the file system
\* is the directory <home>/.guardrails and the file credentials.json in it.
NoFile == [exists |-> FALSE, content |-> EmptyDict]
NoCredentials == [dir |-> FALSE, file |-> NoFile]
ProgramName == <<"configure_guardrails.py">>

\* os.getenv(name): the value, or None when unset (as falsy as "")
Getenv(environ, name) == Get(environ, name, <<>>)

\* main, lines 45-56: the environment variable, then the argument, then the
\* prompt; argv[1] is the program name, as sys.argv[0] is
ResolveKeyArgFirst(environ, argv, typed) ==
  LET fromArg == IF Len(argv) > 1 THEN argv[2] ELSE <<>>
      fromEnv == IF fromArg = <<>> THEN Getenv(environ, "GUARDRAILS_API_KEY") ELSE fromArg
  IN  IF fromEnv # <<>>
        THEN [api_key |-> fromEnv, prompted |-> FALSE, eof |-> FALSE]
        ELSE [api_key |-> Strip(typed.text), prompted |-> TRUE, eof |-> typed.eof]
ResolveKey(environ, argv, typed) ==
  LET fromEnv == Getenv(environ, "GUARDRAILS_API_KEY")
      fromArg == IF fromEnv = <<>> /\ Len(argv) > 1 THEN argv[2] ELSE fromEnv
  IN  IF fromArg # <<>>
        THEN [api_key |-> fromArg, prompted |-> FALSE, eof |-> FALSE]
        ELSE [api_key |-> Strip(typed.text), prompted |-> TRUE, eof |-> typed.eof]

\* get_config_path: config_dir.mkdir(exist_ok=True)
GetConfigPath(fs) == [fs EXCEPT !.dir = TRUE]

\* configure_guardrails: open(config_path, "w"); json.dump({"api_key": api_key})
ConfigureGuardrails(fs, api_key) ==
  [GetConfigPath(fs) EXCEPT !.file = [exists |-> TRUE, content |-> [api_key |-> api_key]]]

\* main: the exit status and the file system it leaves; input() at end of
\* input raises EOFError, which ends the interpreter with status 1
Main(environ, argv, typed, fs) ==
  LET r == ResolveKey(environ, argv, typed)
  IN  IF r.eof \/ r.api_key = <<>>
        THEN [exit |-> 1, prompted |-> r.prompted, fs |-> fs]
        ELSE [exit |-> 0, prompted |-> r.prompted, fs |-> ConfigureGuardrails(fs, r.api_key)]

Environs ==
  {EmptyDict} \cup { [GUARDRAILS_API_KEY |-> v] : v \in {<<>>, <<" ">>, <<"e">>} }
Argvs ==
  { <<ProgramName>>, <<ProgramName, <<>>>>, <<ProgramName, <<"a">>>>,
    <<ProgramName, <<"a">>, <<"x">>>> }
TypedLines ==
  { [eof |-> TRUE, text |-> <<>>] }
  \cup { [eof |-> FALSE, text |-> t] : t \in {<<>>, <<" ">>, <<"p">>, <<" ", "p", " ">>} }

VARIABLES
  splitter,        \* the object the latest constructor call produced
  ctorArgs,        \* arguments of the latest constructor call
  ctorErr,         \* "none" or the exception the constructor raised
  op,              \* the latest splitter operation
  texts,           \* its text arguments
  metadata,        \* its metadata argument
  chunks,          \* the chunk list it returned
  chunk_metadata,  \* the metadata list it returned
  metadata_after,  \* the caller's metadata list once the call has returned
  path,            \* TextFileLoader.path
  fs,              \* what the file system holds at path
  documents,       \* TextFileLoader.documents
  loader_metadata, \* TextFileLoader.metadata
  status,          \* "none", "ok", or the exception the latest call raised
  warnings,        \* the warnings the latest call printed
  dispatched,      \* the method the latest load handed the path to
  lastCall,        \* the latest loader method called
  returned,        \* what it returned (<<>> for None or after a raise)
  loads,           \* number of load calls so far
  paper_cache,     \* the module's paper_cache: cache key -> document list
  searchCalls,     \* per cache key, the calls of arxiv_tool.run made for it
  firstReturn,     \* per cache key, what the first fetch for it returned
  arxOp,           \* "none", "fetch" or "rag": the latest call
  fetchArgs,       \* query and max_papers of the latest fetch
  results,         \* what arxiv_tool.run did in it (NoSearch: not called)
  searched,        \* whether the latest fetch called arxiv_tool.run
  fetchReturn,     \* what the latest fetch returned
  fetchCaught,     \* the exception its except clause caught, or "none"
  fetchRaised,     \* whether an exception left fetch_arxiv_papers
  rag,             \* create_dynamic_rag's latest outcome
  fetches,         \* number of fetches so far
  config,          \* the SDGConfig the latest call built (self.config)
  config_call,     \* the call that built it, with its keyword arguments
  sdg_documents,   \* state["documents"] of the pipeline run
  vectorstore,     \* state["vectorstore"]: whether the index is built
  simple_questions,  \* state["simple_questions"]
  evolved_questions, \* state["evolved_questions"]
  contexts,        \* state["contexts"]
  answers,         \* state["answers"]
  stats,           \* state["stats"]
  sdg_node,        \* where the run stands: "idle", a stage, "END", "returned", "raised"
  executed,        \* the stages run so far, in order
  llm_calls,       \* model calls made in the run
  index_builds,    \* vector indexes built in the run
  sdg_error,       \* "none" or the exception generate_synthetic_data raised
  output,          \* the dict generate_synthetic_data returned
  item_log,        \* per stage run, what the external call did for each item
  asked,           \* the (question, context) pairs sent to the answer prompt
  next_id,         \* the next unused identifier (uuid4 never repeats)
  synthetic_data,  \* argument of the latest _create_combined_dataset call
  combined_data,   \* what it returned
  builder,         \* the function that built the compiled agent graph
  agent_params,    \* strict_mode and max_refinements it was built with
  agent_node,      \* the node to run next: "idle", a node, END or "raised"
  messages,        \* state["messages"]
  graph_state,     \* the other keys of the graph state
  visited,         \* the nodes run so far in this invocation, in order
  input_verdict,   \* "none", or whether input validation marked the state failed
  model_calls,     \* model invocations in this invocation
  a2a_calls,       \* the calls of call_general_agent_via_a2a so far, with their results
  validations,     \* the calls of validate_input / validate_output so far, with their results
  cred_fs,         \* <home>/.guardrails and the credentials file in it
  cred_run,        \* the latest run of configure_guardrails.py: inputs and exit status
  cred_runs,       \* number of runs so far
  node_run         \* the latest run of a guardrails_node: its state, guards and outcome

splitVars ==
  <<splitter, ctorArgs, ctorErr, op, texts, metadata, chunks, chunk_metadata,
    metadata_after>>

loadVars ==
  <<path, fs, documents, loader_metadata, status, warnings, dispatched,
    lastCall, returned, loads>>

arxivVars ==
  <<paper_cache, searchCalls, firstReturn, arxOp, fetchArgs, results, searched,
    fetchReturn, fetchCaught, fetchRaised, rag, fetches>>

sdgVars ==
  <<config, config_call, sdg_documents, vectorstore, simple_questions,
    evolved_questions, contexts, answers, stats, sdg_node, executed, llm_calls,
    index_builds, sdg_error, output, item_log, asked, next_id, synthetic_data,
    combined_data>>

agentVars ==
  <<builder, agent_params, agent_node, messages, graph_state, visited,
    input_verdict, model_calls>>

utilVars == <<a2a_calls, validations, cred_fs, cred_run, cred_runs, node_run>>
credVars == <<cred_fs, cred_run, cred_runs>>

vars == <<splitVars, loadVars, arxivVars, sdgVars, agentVars, utilVars>>
\* what an operation of one component leaves alone
notSplitVars == <<loadVars, arxivVars, sdgVars, agentVars, utilVars>>
notLoadVars == <<splitVars, arxivVars, sdgVars, agentVars, utilVars>>
notArxivVars == <<splitVars, loadVars, sdgVars, agentVars, utilVars>>
notSdgVars == <<splitVars, loadVars, arxivVars, agentVars, utilVars>>
notAgentVars == <<splitVars, loadVars, arxivVars, sdgVars, utilVars>>
notUtilVars == <<splitVars, loadVars, arxivVars, sdgVars, agentVars>>

NoArgs == [chunk_size |-> 0, chunk_overlap |-> 0]
NoFetchArgs == [query |-> <<>>, max_papers |-> 0]
NoRag == [answer |-> "", indexed |-> FALSE, chatted |-> FALSE, raised |-> FALSE]
NoWorld == [kind |-> "missing", files |-> <<>>]
NoConfigCall == [name |-> "none", kwargs |-> EmptyDict]

\* no splitter built yet; a loader whose path does not exist
InitSplit ==
  /\ splitter = NoSplitter
  /\ ctorArgs = NoArgs
  /\ ctorErr = "none"
  /\ op = "none"
  /\ texts = <<>>
  /\ metadata = <<>>
  /\ chunks = <<>>
  /\ chunk_metadata = <<>>
  /\ metadata_after = <<>>
  /\ path = DirName
  /\ fs = NoWorld
  /\ documents = <<>>
  /\ loader_metadata = <<>>
  /\ status = "none"
  /\ warnings = <<>>
  /\ dispatched = "none"
  /\ lastCall = "none"
  /\ returned = <<>>
  /\ loads = 0
  /\ paper_cache = <<>>
  /\ searchCalls = [k \in Keys |-> 0]
  /\ firstReturn = <<>>
  /\ arxOp = "none"
  /\ fetchArgs = NoFetchArgs
  /\ results = NoSearch
  /\ searched = FALSE
  /\ fetchReturn = <<>>
  /\ fetchCaught = "none"
  /\ fetchRaised = FALSE
  /\ rag = NoRag
  /\ fetches = 0
  /\ config = SDGDefaults
  /\ config_call = NoConfigCall
  /\ sdg_documents = <<>>
  /\ vectorstore = FALSE
  /\ simple_questions = <<>>
  /\ evolved_questions = <<>>
  /\ contexts = <<>>
  /\ answers = <<>>
  /\ stats = EmptyDict
  /\ sdg_node = "idle"
  /\ executed = <<>>
  /\ llm_calls = 0
  /\ index_builds = 0
  /\ sdg_error = "none"
  /\ output = EmptyDict
  /\ item_log = <<>>
  /\ asked = <<>>
  /\ next_id = 1
  /\ synthetic_data = EmptyDict
  /\ combined_data = <<>>
  /\ builder = "none"
  /\ agent_params = NoParams
  /\ agent_node = "idle"
  /\ messages = <<>>
  /\ graph_state = EmptyDict
  /\ visited = <<>>
  /\ input_verdict = "none"
  /\ model_calls = 0
  /\ a2a_calls = <<>>
  /\ validations = <<>>
  /\ cred_fs = [dir |-> FALSE, file |-> [exists |-> FALSE, content |-> <<>>]]
  /\ cred_run = [environ |-> <<>>, argv |-> <<>>, typed |-> [eof |-> FALSE, text |-> <<>>],
                 before |-> [dir |-> FALSE, file |-> [exists |-> FALSE, content |-> <<>>]],
                 exit |-> 0, prompted |-> FALSE]
  /\ cred_runs = 0
  /\ node_run = [ran |-> FALSE, messages |-> <<>>, input_guard |-> NoGuard,
                 output_guard |-> NoGuard, strict_mode |-> TRUE,
                 outcome |-> [raised |-> FALSE, error |-> "none",
                              ret |-> [validation_results |-> <<>>], calls |-> <<>>]]

\* CharacterTextSplitter(chunk_size, chunk_overlap)
Construct(s, o) ==
  /\ ctorArgs' = [chunk_size |-> s, chunk_overlap |-> o]
  /\ IF CtorAccepts(s, o)
       THEN /\ splitter' = [chunk_size |-> s, chunk_overlap |-> o, built |-> TRUE]
            /\ ctorErr' = "none"
       ELSE /\ splitter' = NoSplitter
            /\ ctorErr' = "AssertionError"
  /\ op' = "construct"
  /\ UNCHANGED notSplitVars
  /\ texts' = <<>>
  /\ metadata' = <<>>
  /\ chunks' = <<>>
  /\ chunk_metadata' = <<>>
  /\ metadata_after' = <<>>

\* splitter.split(t)
Split(t) ==
  /\ splitter.built
  /\ op' = "split"
  /\ texts' = <<t>>
  /\ chunks' = SplitText(splitter, t)
  /\ metadata' = <<>>
  /\ chunk_metadata' = <<>>
  /\ metadata_after' = <<>>
  /\ UNCHANGED <<splitter, ctorArgs, ctorErr>>
  /\ UNCHANGED notSplitVars

\* splitter.split_texts(ts)
DoSplitTexts(ts) ==
  /\ splitter.built
  /\ op' = "split_texts"
  /\ texts' = ts
  /\ chunks' = SplitTexts(splitter, ts)
  /\ metadata' = <<>>
  /\ chunk_metadata' = <<>>
  /\ metadata_after' = <<>>
  /\ UNCHANGED <<splitter, ctorArgs, ctorErr>>
  /\ UNCHANGED notSplitVars

\* splitter.split_texts_with_metadata(ts, ms)
DoSplitTextsWithMetadata(ts, ms) ==
  /\ splitter.built
  /\ op' = "split_texts_with_metadata"
  /\ texts' = ts
  /\ metadata' = ms
  /\ LET r == SplitTextsWithMetadata(splitter, ts, ms)
     IN  /\ chunks' = r[1]
         /\ chunk_metadata' = r[2]
         /\ metadata_after' = r[3]
  /\ UNCHANGED <<splitter, ctorArgs, ctorErr>>
  /\ UNCHANGED notSplitVars

\* ------------------------------------------------------ loader operations
\* TextFileLoader(path): empty lists; the path is a directory of up to
\* MaxFiles files, one file, or nothing
InitLoader ==
  /\ splitter = NoSplitter
  /\ ctorArgs = NoArgs
  /\ ctorErr = "none"
  /\ op = "none"
  /\ texts = <<>>
  /\ metadata = <<>>
  /\ chunks = <<>>
  /\ chunk_metadata = <<>>
  /\ metadata_after = <<>>
  /\ \/ /\ path = DirName
        /\ \E fl \in SeqsUpTo(FileEntries, MaxFiles) : fs = [kind |-> "dir", files |-> fl]
     \/ \E e \in FileEntries : path = e.name /\ fs = [kind |-> "file", files |-> <<e>>]
     \/ path \in {DirName, TxtName, PdfName, OtherName} /\ fs = NoWorld
  /\ documents = <<>>
  /\ loader_metadata = <<>>
  /\ status = "none"
  /\ warnings = <<>>
  /\ dispatched = "none"
  /\ lastCall = "none"
  /\ returned = <<>>
  /\ loads = 0
  /\ paper_cache = <<>>
  /\ searchCalls = [k \in Keys |-> 0]
  /\ firstReturn = <<>>
  /\ arxOp = "none"
  /\ fetchArgs = NoFetchArgs
  /\ results = NoSearch
  /\ searched = FALSE
  /\ fetchReturn = <<>>
  /\ fetchCaught = "none"
  /\ fetchRaised = FALSE
  /\ rag = NoRag
  /\ fetches = 0
  /\ config = SDGDefaults
  /\ config_call = NoConfigCall
  /\ sdg_documents = <<>>
  /\ vectorstore = FALSE
  /\ simple_questions = <<>>
  /\ evolved_questions = <<>>
  /\ contexts = <<>>
  /\ answers = <<>>
  /\ stats = EmptyDict
  /\ sdg_node = "idle"
  /\ executed = <<>>
  /\ llm_calls = 0
  /\ index_builds = 0
  /\ sdg_error = "none"
  /\ output = EmptyDict
  /\ item_log = <<>>
  /\ asked = <<>>
  /\ next_id = 1
  /\ synthetic_data = EmptyDict
  /\ combined_data = <<>>
  /\ builder = "none"
  /\ agent_params = NoParams
  /\ agent_node = "idle"
  /\ messages = <<>>
  /\ graph_state = EmptyDict
  /\ visited = <<>>
  /\ input_verdict = "none"
  /\ model_calls = 0
  /\ a2a_calls = <<>>
  /\ validations = <<>>
  /\ cred_fs = [dir |-> FALSE, file |-> [exists |-> FALSE, content |-> <<>>]]
  /\ cred_run = [environ |-> <<>>, argv |-> <<>>, typed |-> [eof |-> FALSE, text |-> <<>>],
                 before |-> [dir |-> FALSE, file |-> [exists |-> FALSE, content |-> <<>>]],
                 exit |-> 0, prompted |-> FALSE]
  /\ cred_runs = 0
  /\ node_run = [ran |-> FALSE, messages |-> <<>>, input_guard |-> NoGuard,
                 output_guard |-> NoGuard, strict_mode |-> TRUE,
                 outcome |-> [raised |-> FALSE, error |-> "none",
                              ret |-> [validation_results |-> <<>>], calls |-> <<>>]]

\* one call of load on the loader as it stands
LoadOutcome ==
  Load([documents |-> documents, metadata |-> loader_metadata,
        status |-> "ok", warnings |-> <<>>], path, fs, loads + 1)

LoadEffects(r) ==
  /\ loads < MaxLoads
  /\ documents' = r.documents
  /\ loader_metadata' = r.metadata
  /\ status' = r.status
  /\ warnings' = r.warnings
  /\ dispatched' = Dispatch(path, fs)
  /\ loads' = loads + 1
  /\ UNCHANGED <<path, fs>>
  /\ UNCHANGED notLoadVars

\* loader.load()
DoLoad ==
  /\ LoadEffects(LoadOutcome)
  /\ lastCall' = "load"
  /\ returned' = <<>>

\* loader.load_documents()
DoLoadDocuments ==
  /\ LoadEffects(LoadOutcome)
  /\ lastCall' = "load_documents"
  /\ returned' = IF LoadOutcome.status = "ok" THEN <<LoadOutcome.documents>> ELSE <<>>

\* loader.load_documents_with_metadata()
DoLoadDocumentsWithMetadata ==
  /\ LoadEffects(LoadOutcome)
  /\ lastCall' = "load_documents_with_metadata"
  /\ returned' = IF LoadOutcome.status = "ok"
                   THEN <<LoadOutcome.documents, LoadOutcome.metadata>> ELSE <<>>

\* the environment: what was at the path is removed between two calls
FsRemove ==
  /\ fs.kind # "missing"
  /\ loads < MaxLoads
  /\ fs' = NoWorld
  /\ UNCHANGED <<path, documents, loader_metadata, status, warnings, dispatched,
                 lastCall, returned, loads>>
  /\ UNCHANGED notLoadVars

\* ------------------------------------------------------- arxiv operations
\* the bookkeeping of one run of fetch_arxiv_papers with outcome r
FetchEffects(query, max_papers, search, r) ==
  LET key == CacheKey(query, max_papers)
  IN  /\ fetches < MaxFetches
      /\ fetches' = fetches + 1
      /\ paper_cache' = r.cache
      /\ searchCalls' = IF r.searched THEN [searchCalls EXCEPT ![key] = @ + 1]
                        ELSE searchCalls
      /\ firstReturn' = IF key \in DOMAIN firstReturn THEN firstReturn
                        ELSE CacheStore(firstReturn, key, r.ret)
      /\ fetchArgs' = [query |-> query, max_papers |-> max_papers]
      /\ results' = IF r.searched THEN search ELSE NoSearch
      /\ searched' = r.searched
      /\ fetchReturn' = r.ret
      /\ fetchCaught' = r.caught
      /\ fetchRaised' = r.raised

\* fetch_arxiv_papers(query, max_papers)
DoFetch(query, max_papers, search) ==
  /\ FetchEffects(query, max_papers, search,
                  FetchArxivPapers(paper_cache, query, max_papers, search))
  /\ arxOp' = "fetch"
  /\ rag' = NoRag
  /\ UNCHANGED notArxivVars

\* create_dynamic_rag(query): the fetch with max_papers=2, then the chain;
\* an exception leaving the fetch would leave create_dynamic_rag as well
DoRag(query, search, outcome) ==
  LET r == FetchArxivPapers(paper_cache, query, DefaultMaxPapers, search)
  IN  /\ FetchEffects(query, DefaultMaxPapers, search, r)
      /\ arxOp' = "rag"
      /\ rag' = IF r.raised THEN [NoRag EXCEPT !.raised = TRUE]
                ELSE DynamicRag(r.ret, outcome)
      /\ UNCHANGED notArxivVars

\* generate_synthetic_data: if not documents: raise ValueError
NoDocumentsNever(docs) == FALSE
NoDocuments(docs) == docs = <<>>

\* _build_graph: the entry point and the edges
EntryPoint == "prepare_documents"
EdgeSkipsReasoning(stage) ==
  CASE stage = "prepare_documents" -> "generate_simple_questions"
    [] stage = "generate_simple_questions" -> "simple_evolution"
    [] stage = "simple_evolution" -> "multi_context_evolution"
    [] stage = "multi_context_evolution" -> "generate_contexts"
    [] stage = "reasoning_evolution" -> "generate_contexts"
    [] stage = "generate_contexts" -> "generate_answers"
    [] stage = "generate_answers" -> "END"
Edge(stage) ==
  CASE stage = "prepare_documents" -> "generate_simple_questions"
    [] stage = "generate_simple_questions" -> "simple_evolution"
    [] stage = "simple_evolution" -> "multi_context_evolution"
    [] stage = "multi_context_evolution" -> "reasoning_evolution"
    [] stage = "reasoning_evolution" -> "generate_contexts"
    [] stage = "generate_contexts" -> "generate_answers"
    [] stage = "generate_answers" -> "END"

\* --------------------------------------------------------- SDG operations
\* what the external calls of the pipeline can do
QuestionResponses ==
  { Raised,
    [raised |-> FALSE, content |-> <<" ", "q1">>],
    [raised |-> FALSE, content |-> <<"q1", " ", "\n", " ", "\n", "q2", "\n">>] }
EvolveResponses == { Raised, [raised |-> FALSE, content |-> <<"e", " ">>] }
AnswerResponses == { Raised, [raised |-> FALSE, content |-> <<" ", "a">>] }
Chunks ==
  << [page_content |-> <<"c">>, metadata |-> [source |-> "s"]],
     [page_content |-> <<"d">>, metadata |-> EmptyDict] >>
Retrievals == { Raised, [raised |-> FALSE, docs |-> Chunks] }
PrepareOutcomes == { Raised, [raised |-> FALSE, chunks |-> Len(Chunks)] }
\* Document(page_content=..., metadata={"source": ...})
Doc == [page_content |-> <<"p">>, metadata |-> [source |-> "s"]]
DocLists == SeqsUpTo({Doc}, MaxDocs)
\* the configurations the runs are made with
RunOverrides ==
  { [max_documents |-> 1, questions_per_document |-> 2],
    [max_documents |-> 2, questions_per_document |-> 1],
    [max_documents |-> 1, questions_per_document |-> 1] }

\* item_log with the calls of one stage added
Logged(log, stage, rs) ==
  [k \in DOMAIN log \cup {stage} |-> IF k = stage THEN rs ELSE log[k]]

sdgState ==
  <<sdg_documents, vectorstore, simple_questions, evolved_questions, contexts,
    answers, stats>>
sdgRun == <<executed, llm_calls, index_builds, sdg_error, output, item_log, asked, next_id>>
exportVars == <<synthetic_data, combined_data>>

\* SDGConfig(**kwargs)
DoSDGConfig(kwargs) ==
  /\ sdg_node = "idle"
  /\ config' = SDGConfig(kwargs)
  /\ config_call' = [name |-> "SDGConfig", kwargs |-> kwargs]
  /\ UNCHANGED <<sdgState, sdg_node, sdgRun, exportVars>>
  /\ UNCHANGED notSdgVars

\* create_optimized_config(**kwargs)
DoCreateOptimizedConfig(kwargs) ==
  /\ sdg_node = "idle"
  /\ config' = CreateOptimizedConfig(kwargs)
  /\ config_call' = [name |-> "create_optimized_config", kwargs |-> kwargs]
  /\ UNCHANGED <<sdgState, sdg_node, sdgRun, exportVars>>
  /\ UNCHANGED notSdgVars

\* OptimizedRagasLangGraphSDG(create_optimized_config(**kwargs)): the graph
\* is compiled, nothing has run
NewSDG(kwargs) ==
  /\ sdg_node = "idle"
  /\ config' = CreateOptimizedConfig(kwargs)
  /\ config_call' = [name |-> "create_optimized_config", kwargs |-> kwargs]
  /\ sdg_node' = "ready"
  /\ UNCHANGED <<sdgState, sdgRun, exportVars>>
  /\ UNCHANGED notSdgVars

\* generate_synthetic_data(documents) up to graph.invoke(initial_state)
GenerateSyntheticData(docs) ==
  /\ sdg_node = "ready"
  /\ sdg_documents' = docs
  /\ IF NoDocuments(docs)
       THEN sdg_node' = "raised" /\ sdg_error' = "ValueError"
       ELSE sdg_node' = EntryPoint /\ sdg_error' = "none"
  /\ UNCHANGED <<vectorstore, simple_questions, evolved_questions, contexts,
                 answers, stats, executed, llm_calls, index_builds, output,
                 item_log, asked, next_id>>
  /\ UNCHANGED <<config, config_call, exportVars>>
  /\ UNCHANGED notSdgVars

\* _prepare_documents_node; an error of the splitter or of the index leaves
\* the node, the graph and generate_synthetic_data (logged, re-raised)
PrepareDocumentsNode(outcome) ==
  /\ sdg_node = "prepare_documents"
  /\ executed' = Append(executed, "prepare_documents")
  /\ IF outcome.raised
       THEN /\ sdg_node' = "raised"
            /\ sdg_error' = "Exception"
            /\ UNCHANGED <<vectorstore, stats, index_builds>>
       ELSE /\ sdg_node' = Edge("prepare_documents")
            /\ vectorstore' = TRUE
            /\ index_builds' = index_builds + 1
            /\ stats' = [total_documents |-> Len(LimitDocuments(sdg_documents, config)),
                         total_chunks |-> outcome.chunks,
                         chunk_size |-> config.chunk_size]
            /\ UNCHANGED sdg_error
  /\ UNCHANGED <<sdg_documents, simple_questions, evolved_questions, contexts,
                 answers, llm_calls, output, item_log, asked, next_id>>
  /\ UNCHANGED <<config, config_call, exportVars>>
  /\ UNCHANGED notSdgVars

\* _generate_simple_questions_node
GenerateSimpleQuestionsNode(responses) ==
  /\ sdg_node = "generate_simple_questions"
  /\ executed' = Append(executed, "generate_simple_questions")
  /\ simple_questions' = GenerateSimpleQuestions(sdg_documents, config, responses)
  /\ llm_calls' = llm_calls + Len(responses)
  /\ item_log' = Logged(item_log, "generate_simple_questions", responses)
  /\ sdg_node' = Edge("generate_simple_questions")
  /\ UNCHANGED <<sdg_documents, vectorstore, evolved_questions, contexts, answers,
                 stats, index_builds, sdg_error, output, asked, next_id>>
  /\ UNCHANGED <<config, config_call, exportVars>>
  /\ UNCHANGED notSdgVars

\* what the three evolution nodes share
EvolutionEffects(stage, r, responses) ==
  /\ sdg_node = stage
  /\ executed' = Append(executed, stage)
  /\ evolved_questions' = r.list
  /\ next_id' = r.next
  /\ llm_calls' = llm_calls + Len(responses)
  /\ item_log' = Logged(item_log, stage, responses)
  /\ sdg_node' = Edge(stage)
  /\ UNCHANGED <<sdg_documents, vectorstore, simple_questions, contexts, answers,
                 stats, index_builds, sdg_error, output, asked>>
  /\ UNCHANGED <<config, config_call, exportVars>>
  /\ UNCHANGED notSdgVars

\* _simple_evolution_node
SimpleEvolutionNode(responses) ==
  EvolutionEffects("simple_evolution",
                   SimpleEvolution(simple_questions, next_id, responses),
                   responses)

\* _multi_context_evolution_node
MultiContextEvolutionNode(responses) ==
  EvolutionEffects("multi_context_evolution",
                   MultiContextEvolution(simple_questions, evolved_questions,
                                         next_id, responses),
                   responses)

\* _reasoning_evolution_node
ReasoningEvolutionNode(responses) ==
  EvolutionEffects("reasoning_evolution",
                   ReasoningEvolution(simple_questions, evolved_questions,
                                      next_id, responses),
                   responses)

\* _generate_contexts_node
GenerateContextsNode(retrievals) ==
  /\ sdg_node = "generate_contexts"
  /\ executed' = Append(executed, "generate_contexts")
  /\ contexts' = GenerateContexts(evolved_questions, retrievals)
  /\ item_log' = Logged(item_log, "generate_contexts", retrievals)
  /\ sdg_node' = Edge("generate_contexts")
  /\ UNCHANGED <<sdg_documents, vectorstore, simple_questions, evolved_questions,
                 answers, stats, llm_calls, index_builds, sdg_error, output,
                 asked, next_id>>
  /\ UNCHANGED <<config, config_call, exportVars>>
  /\ UNCHANGED notSdgVars

\* _generate_answers_node
GenerateAnswersNode(responses) ==
  LET r == GenerateAnswers(evolved_questions, contexts, responses)
  IN  /\ sdg_node = "generate_answers"
      /\ executed' = Append(executed, "generate_answers")
      /\ answers' = r.list
      /\ asked' = r.asked
      /\ llm_calls' = llm_calls + Len(responses)
      /\ item_log' = Logged(item_log, "generate_answers", responses)
      /\ sdg_node' = Edge("generate_answers")
      /\ UNCHANGED <<sdg_documents, vectorstore, simple_questions,
                     evolved_questions, contexts, stats, index_builds, sdg_error,
                     output, next_id>>
      /\ UNCHANGED <<config, config_call, exportVars>>
      /\ UNCHANGED notSdgVars

\* generate_synthetic_data after graph.invoke: format the output, return it
ReturnOutput ==
  /\ sdg_node = "END"
  /\ output' = FormatOutput(evolved_questions, answers, contexts, stats)
  /\ sdg_node' = "returned"
  /\ UNCHANGED <<sdgState, executed, llm_calls, index_builds, sdg_error,
                 item_log, asked, next_id>>
  /\ UNCHANGED <<config, config_call, exportVars>>
  /\ UNCHANGED notSdgVars

\* keyword arguments given to SDGConfig and create_optimized_config
ConfigKeys == {"chunk_size", "chunk_overlap", "max_documents", "questions_per_document"}
ConfigValues(k) ==
  CASE k = "chunk_size" -> {50, 2000}
    [] k = "chunk_overlap" -> {0, 1000, 3000}
    [] k = "max_documents" -> {1, 2}
    [] k = "questions_per_document" -> {1, 2}
ConfigOverrides ==
  UNION { {kw \in [K -> UNION {ConfigValues(k) : k \in ConfigKeys}] :
             \A k \in K : kw[k] \in ConfigValues(k)} : K \in SUBSET ConfigKeys }

\* arguments of _create_combined_dataset
ExportQuestion(id) ==
  [id |-> id, question |-> <<"e">>, evolution_type |-> "simple",
   original_question |-> <<"q1">>, metadata |-> EmptyDict]
ExportAnswer(id, text) ==
  [question_id |-> id, answer |-> text, confidence_score |-> 1, metadata |-> EmptyDict]
ExportContext(id) ==
  [question_id |-> id, context |-> <<"c">>, relevance_score |-> 1,
   source_documents |-> <<"s">>, metadata |-> EmptyDict]
\* identifiers: the last one is no evolved question's
ExportIds == {"id1", "id2", "id3"}
QuestionIds == {"id1", "id2"}
ExportInputs ==
  { [evolved_questions |-> qs, answers |-> as, contexts |-> cs] :
      qs \in SeqsUpTo({ExportQuestion(i) : i \in QuestionIds}, MaxExportRows),
      as \in SeqsUpTo({ExportAnswer(i, <<"a">>) : i \in ExportIds}
                        \cup {ExportAnswer("id1", <<>>)}, MaxExportRows),
      cs \in SeqsUpTo({ExportContext(i) : i \in ExportIds}, MaxExportRows) }
  \cup { [evolved_questions |-> <<ExportQuestion("id1")>>],
         [answers |-> <<ExportAnswer("id1", <<"a">>)>>],
         [evolved_questions |-> <<ExportQuestion("id1"), ExportQuestion("id2")>>,
          contexts |-> <<ExportContext("id2")>>] }

\* _create_combined_dataset(data) for some argument data
DoCreateCombinedDataset ==
  /\ sdg_node = "idle"
  /\ synthetic_data = EmptyDict
  /\ \E data \in ExportInputs :
       /\ synthetic_data' = data
       /\ combined_data' = CreateCombinedDataset(data)
  /\ UNCHANGED <<sdgState, sdg_node, sdgRun, config, config_call>>
  /\ UNCHANGED notSdgVars

\* ------------------------------------------------------- agent operations
\* agent = builder(...); agent.invoke({"messages": [HumanMessage(...)]})
Invoke(b, params) ==
  /\ agent_node = "idle"
  /\ builder' = b
  /\ agent_params' = params
  /\ messages' = <<HumanMessage>>
  /\ graph_state' = EmptyDict
  /\ agent_node' = EntryOf(b)
  /\ UNCHANGED <<visited, input_verdict, model_calls>>
  /\ UNCHANGED notAgentVars

\* the agent node (call_model / agent_node): the response is appended, then
\* the conditional edge is followed; an exception of the model leaves the graph
CallModel(response) ==
  /\ agent_node = "agent"
  /\ model_calls < MaxModelCalls
  /\ model_calls' = model_calls + 1
  /\ visited' = Append(visited, "agent")
  /\ IF response.raised
       THEN agent_node' = "raised" /\ UNCHANGED messages
       ELSE /\ messages' = Append(messages, response.message)
            /\ agent_node' = AfterAgent(builder, messages')
  /\ UNCHANGED <<builder, agent_params, graph_state, input_verdict>>
  /\ UNCHANGED notAgentVars

\* the tool node, then the edge back to agent
RunTools ==
  /\ agent_node = ToolNodeOf(builder)
  /\ visited' = Append(visited, agent_node)
  /\ messages' = ToolNode(messages)
  /\ agent_node' = "agent"
  /\ UNCHANGED <<builder, agent_params, graph_state, input_verdict, model_calls>>
  /\ UNCHANGED notAgentVars

\* the input_validation node, then route_after_input_validation
InputValidationNode(passed) ==
  /\ agent_node = "input_validation"
  /\ visited' = Append(visited, "input_validation")
  /\ graph_state' = InputValidation(graph_state, passed, agent_params.strict_mode)
  /\ input_verdict' = IF Get(graph_state', "validation_failed", FALSE)
                        THEN "failed" ELSE "passed"
  /\ agent_node' = RouteAfterInputValidation(graph_state')
  /\ UNCHANGED <<builder, agent_params, messages, model_calls>>
  /\ UNCHANGED notAgentVars

\* the output_validation node, then route_after_output_validation
OutputValidationNode(passed) ==
  /\ agent_node = "output_validation"
  /\ visited' = Append(visited, "output_validation")
  /\ graph_state' = OutputValidation(graph_state, passed, agent_params.strict_mode)
  /\ agent_node' = RouteAfterOutputValidation(graph_state', agent_params.max_refinements)
  /\ UNCHANGED <<builder, agent_params, messages, input_verdict, model_calls>>
  /\ UNCHANGED notAgentVars

\* --------------------------------------------------------- tool operations
\* call_general_agent_via_a2a(query) against a remote side that behaves as world
DoCallGeneralAgent(query, world) ==
  /\ Len(a2a_calls) < MaxA2ACalls
  /\ a2a_calls' = Append(a2a_calls,
                        [query |-> query, world |-> world,
                         result |-> CallGeneralAgentViaA2A(query, world)])
  /\ UNCHANGED <<validations, credVars, node_run>>
  /\ UNCHANGED notUtilVars

\* validate_input(guard, "text", raise_on_failure) with a guard that does outcome
DoValidateInput(outcome, raise_on_failure) ==
  /\ Len(validations) < MaxValidations
  /\ validations' = Append(validations,
                          [fn |-> "validate_input", outcome |-> outcome,
                           text |-> "text", context |-> None,
                           raise_on_failure |-> raise_on_failure,
                           result |-> ValidateInput(outcome, "text", raise_on_failure)])
  /\ UNCHANGED <<a2a_calls, credVars, node_run>>
  /\ UNCHANGED notUtilVars

\* validate_output(guard, "text", context, raise_on_failure)
DoValidateOutput(outcome, context, raise_on_failure) ==
  /\ Len(validations) < MaxValidations
  /\ validations' = Append(validations,
                          [fn |-> "validate_output", outcome |-> outcome,
                           text |-> "text", context |-> context,
                           raise_on_failure |-> raise_on_failure,
                           result |-> ValidateOutput(outcome, "text", context,
                                                     raise_on_failure)])
  /\ UNCHANGED <<a2a_calls, credVars, node_run>>
  /\ UNCHANGED notUtilVars

\* python configure_guardrails.py [API_KEY], with the line typed at the prompt
\* should the prompt be shown
RunConfigure(environ, argv, typed) ==
  /\ cred_runs < MaxCredRuns
  /\ cred_runs' = cred_runs + 1
  /\ LET r == Main(environ, argv, typed, cred_fs)
     IN  /\ cred_fs' = r.fs
         /\ cred_run' = [environ |-> environ, argv |-> argv, typed |-> typed,
                         before |-> cred_fs, exit |-> r.exit, prompted |-> r.prompted]
  /\ UNCHANGED <<a2a_calls, validations, node_run>>
  /\ UNCHANGED notUtilVars

\* guardrails_node(state) of create_guardrails_node(input_guard, output_guard,
\* strict_mode)
RunGuardrailsNode(msgs, input_guard, output_guard, strict_mode) ==
  /\ node_run' = [ran |-> TRUE, messages |-> msgs, input_guard |-> input_guard,
                  output_guard |-> output_guard, strict_mode |-> strict_mode,
                  outcome |-> GuardrailsNode(msgs, input_guard, output_guard,
                                             strict_mode)]
  /\ UNCHANGED <<a2a_calls, validations, credVars>>
  /\ UNCHANGED notUtilVars

Texts == SeqsUpTo(Chars, MaxLen)
DocTexts == SeqsUpTo(DocChars, MaxDocLen)

\* single-text splitting
NextSplit ==
  \/ \E s \in Sizes, o \in Sizes : Construct(s, o)
  \/ \E t \in Texts : Split(t)
SpecSplit == InitSplit /\ [][NextSplit]_vars

\* multi-text splitting
NextSplitMulti ==
  \/ \E s \in Sizes, o \in Sizes : Construct(s, o)
  \/ \E ts \in SeqsUpTo(DocTexts, MaxTexts) : DoSplitTexts(ts)
  \/ \E ts \in SeqsUpTo(DocTexts, MaxTexts), ms \in SeqsUpTo(MetaSet, MaxTexts) :
       DoSplitTextsWithMetadata(ts, ms)
SpecSplitMulti == InitSplit /\ [][NextSplitMulti]_vars

\* loading
NextLoader == DoLoad \/ DoLoadDocuments \/ DoLoadDocumentsWithMetadata \/ FsRemove
SpecLoader == InitLoader /\ [][NextLoader]_vars

\* paper fetching
NextArxiv ==
  \/ \E q \in Queries, m \in MaxPapersChoices, so \in SearchOutcomes : DoFetch(q, m, so)
  \/ \E q \in Queries, so \in SearchOutcomes, o \in RagOutcomes : DoRag(q, so, o)
SpecArxiv == InitSplit /\ [][NextArxiv]_vars

\* the synthetic-data pipeline: one system, one run
NextSDG ==
  \/ \E kw \in RunOverrides : NewSDG(kw)
  \/ \E docs \in DocLists : GenerateSyntheticData(docs)
  \/ \E o \in PrepareOutcomes : PrepareDocumentsNode(o)
  \/ \E rs \in [1..Len(LimitDocuments(sdg_documents, config)) -> QuestionResponses] :
       GenerateSimpleQuestionsNode(rs)
  \/ \E rs \in [1..Len(simple_questions) -> EvolveResponses] : SimpleEvolutionNode(rs)
  \/ \E rs \in [1..Len(simple_questions) -> EvolveResponses] : MultiContextEvolutionNode(rs)
  \/ \E rs \in [1..Len(simple_questions) -> EvolveResponses] : ReasoningEvolutionNode(rs)
  \/ \E rs \in [1..Len(evolved_questions) -> Retrievals] : GenerateContextsNode(rs)
  \/ \E rs \in [1..Len(evolved_questions) -> AnswerResponses] : GenerateAnswersNode(rs)
  \/ ReturnOutput
SpecSDG == InitSplit /\ [][NextSDG]_vars

\* building configurations
NextConfig ==
  \/ \E kw \in ConfigOverrides : DoSDGConfig(kw)
  \/ \E kw \in ConfigOverrides : DoCreateOptimizedConfig(kw)
SpecConfig == InitSplit /\ [][NextConfig]_vars

\* the combined export
NextExport == DoCreateCombinedDataset
SpecExport == InitSplit /\ [][NextExport]_vars

\* remote delegation
NextA2A == \E q \in Queries, w \in A2AWorlds : DoCallGeneralAgent(q, w)
SpecA2A == InitSplit /\ [][NextA2A]_vars

\* the validation operations
NextValidate ==
  \/ \E o \in GuardOutcomes, r \in BOOLEAN : DoValidateInput(o, r)
  \/ \E o \in GuardOutcomes, c \in {None, "context"}, r \in BOOLEAN :
       DoValidateOutput(o, c, r)
SpecValidate == InitSplit /\ [][NextValidate]_vars

\* the credential utility
NextCredentials ==
  \E e \in Environs, a \in Argvs, t \in TypedLines : RunConfigure(e, a, t)
SpecCredentials == InitSplit /\ [][NextCredentials]_vars

\* the guardrails node
NextGuardrailsNode ==
  \E h \in NodeHistories, ig \in Guards, og \in Guards, sm \in BOOLEAN :
    RunGuardrailsNode(h, ig, og, sm)
SpecGuardrailsNode == InitSplit /\ [][NextGuardrailsNode]_vars

\* the plain agents
NextAgent ==
  \/ \E b \in {"create_langgraph_agent", "build_simple_agent"} : Invoke(b, NoParams)
  \/ \E r \in ModelResponses : CallModel(r)
  \/ RunTools
SpecAgent == InitSplit /\ [][NextAgent]_vars

\* the guardrail-enforcing agent
NextGuardrailsAgent ==
  \/ \E ps \in GuardrailsParams : Invoke("create_guardrails_agent", ps)
  \/ \E passed \in BOOLEAN : InputValidationNode(passed)
  \/ \E r \in ModelResponses : CallModel(r)
  \/ RunTools
  \/ \E passed \in BOOLEAN : OutputValidationNode(passed)
SpecGuardrailsAgent == InitSplit /\ [][NextGuardrailsAgent]_vars

Init == InitSplit
Next ==
  \/ NextSplit \/ NextSplitMulti \/ NextLoader \/ NextArxiv
  \/ NextSDG \/ NextConfig \/ NextExport
  \/ NextAgent \/ NextGuardrailsAgent
  \/ NextA2A \/ NextValidate \/ NextCredentials \/ NextGuardrailsNode
Spec == Init /\ [][Next]_vars

\* ============================================================== properties
\* text[lo:hi] read as the characters at positions lo .. hi-1 that exist
Substring(t, lo, hi) == SubSeq(t, lo + 1, Min(hi, Len(t)))
\* the positions of the text that chunk number i (from 0) holds, when it
\* starts at i * stride
ChunkPositions(cs, i, stride) == (i * stride)..(i * stride + Len(cs[i + 1]) - 1)

\* C1: split(text) with chunk_size S > chunk_overlap O returns the chunks
\* that start at 0, S-O, 2(S-O), ... below len(text); chunk i is
\* text[i(S-O) : i(S-O)+S], no chunk is longer than S, and every position of
\* the text lies in some chunk.
C1_ChunkingCoverage ==
  op = "split" =>
    LET t == texts[1]
        S == splitter.chunk_size
        stride == splitter.chunk_size - splitter.chunk_overlap
        n == Cardinality({k \in 0..Len(t) : k * stride < Len(t)})
    IN  /\ Len(chunks) = n
        /\ \A i \in 0..(n - 1) :
             /\ chunks[i + 1] = Substring(t, i * stride, i * stride + S)
             /\ Len(chunks[i + 1]) <= S
        /\ \A p \in 0..(Len(t) - 1) :
             \E i \in 0..(n - 1) : p \in ChunkPositions(chunks, i, stride)

\* C2: a constructor call with chunk_overlap >= chunk_size raises and leaves
\* no splitter; a splitter exists only for chunk_size > chunk_overlap.
InvalidInput == {"AssertionError", "ValueError"}
C2_CtorValidation ==
  /\ op # "none" =>
       /\ (ctorArgs.chunk_overlap >= ctorArgs.chunk_size) <=> (ctorErr \in InvalidInput)
       /\ (ctorArgs.chunk_overlap < ctorArgs.chunk_size) <=> (ctorErr = "none")
       /\ ctorErr # "none" => ~splitter.built
       /\ ctorErr = "none" =>
            /\ splitter.built
            /\ splitter.chunk_size = ctorArgs.chunk_size
            /\ splitter.chunk_overlap = ctorArgs.chunk_overlap
  /\ splitter.built => splitter.chunk_size > splitter.chunk_overlap
\* the 500/500 case: size and overlap equal, the call has raised
C2_Witness ==
  /\ op = "construct"
  /\ ctorArgs = [chunk_size |-> 2, chunk_overlap |-> 2]
  /\ ctorErr = "AssertionError"
  /\ ~splitter.built

\* C3: every chunk but the last has length exactly S, and two consecutive
\* chunks of which the later is not the last share exactly O characters: the
\* last O of the earlier are the first O of the later.
C3_ConsecutiveOverlap ==
  op = "split" =>
    LET S == splitter.chunk_size
        O == splitter.chunk_overlap
        n == Len(chunks)
    IN  \A k \in 1..(n - 1) :
          /\ Len(chunks[k]) = S
          /\ k + 1 < n =>
               /\ Cardinality(ChunkPositions(chunks, k - 1, S - O)
                              \cap ChunkPositions(chunks, k, S - O)) = O
               /\ SubSeq(chunks[k], Len(chunks[k]) - O + 1, Len(chunks[k]))
                    = SubSeq(chunks[k + 1], 1, O)

\* C3 as amended, for chunk_size S >= 0 and S > O: chunk k starts at k(S-O)
\* and has length min(S, L - k(S-O)), so it has length S unless it reaches the
\* end of the text (several trailing chunks can be shorter, not only the
\* last); two consecutive chunks share exactly max(0, min(O, length of the
\* later chunk)) characters, the last ones of the earlier and the first ones
\* of the later.
C3_OverlapAmended ==
  (op = "split" /\ splitter.chunk_size >= 0) =>
    LET S == splitter.chunk_size
        O == splitter.chunk_overlap
        L == Len(texts[1])
        n == Len(chunks)
    IN  /\ \A k \in 1..n : Len(chunks[k]) = Min(S, L - (k - 1) * (S - O))
        /\ \A k \in 1..(n - 1) :
             LET m == Max(0, Min(O, Len(chunks[k + 1])))
             IN  /\ Cardinality(ChunkPositions(chunks, k - 1, S - O)
                                \cap ChunkPositions(chunks, k, S - O)) = m
                 /\ SubSeq(chunks[k], Len(chunks[k]) - m + 1, Len(chunks[k]))
                      = SubSeq(chunks[k + 1], 1, m)
\* a positive overlap, a first chunk of full length, and a chunk before the
\* last one that is shorter than chunk_size
C3_Witness ==
  /\ op = "split"
  /\ splitter.chunk_overlap > 0
  /\ Len(chunks) >= 3
  /\ Len(chunks[1]) = splitter.chunk_size
  /\ \E k \in 2..(Len(chunks) - 1) : Len(chunks[k]) < splitter.chunk_size

\* a file load() can read: .txt or .pdf
IsTxt(name) == EndsWith(name, ".txt")
IsPdf(name) == EndsWith(name, ".pdf")
\* the text a readable file holds
ContentOf(f) == IF IsTxt(f.name) THEN TxtContent(f) ELSE PdfContent(f, f.pages)
\* a step that is one call of load, load_documents or
\* load_documents_with_metadata
LoadStep == loads' = loads + 1
Last(q) == q[Len(q)]

\* C5: load() on an existing file that is neither .txt nor .pdf, or on a path
\* that is neither file nor directory, raises InvalidInput and leaves both
\* lists as they were; an existing .txt file goes to load_file (file_type
\* txt, no page_count) and an existing .pdf file to load_pdf (file_type pdf,
\* page_count = number of pages).
C5_LoadDispatch ==
  [][LoadStep =>
      /\ (fs.kind = "missing" \/ (fs.kind = "file" /\ ~IsTxt(path) /\ ~IsPdf(path))) =>
           /\ status' \in InvalidInput
           /\ documents' = documents
           /\ loader_metadata' = loader_metadata
      /\ (fs.kind = "file" /\ IsTxt(path)) =>
           /\ dispatched' = "load_file"
           /\ status' = "ok" =>
                /\ documents' = Append(documents, TxtContent(fs.files[1]))
                /\ Len(loader_metadata') = Len(loader_metadata) + 1
                /\ Last(loader_metadata').file_type = "txt"
                /\ "page_count" \notin DOMAIN Last(loader_metadata')
      /\ (fs.kind = "file" /\ IsPdf(path)) =>
           /\ dispatched' = "load_pdf"
           /\ status' = "ok" =>
                /\ documents' = Append(documents, PdfContent(fs.files[1], fs.files[1].pages))
                /\ Len(loader_metadata') = Len(loader_metadata) + 1
                /\ Last(loader_metadata').file_type = "pdf"
                /\ Last(loader_metadata').page_count = fs.files[1].pages
  ]_vars
\* a second load, after the path was removed, has raised and the document of
\* the first load is still there
C5_Witness ==
  /\ lastCall # "none"
  /\ fs.kind = "missing"
  /\ status = "ValueError"
  /\ dispatched = "none"
  /\ Len(documents) = 1
  /\ Len(loader_metadata) = 1

\* C6: while load() walks a directory, a PDF that fails to parse is skipped
\* with a warning: when nothing else fails the call returns normally and has
\* appended exactly the documents of the readable .txt and .pdf files, in
\* order; the same failure on a PDF named directly raises.
ParseFails(f) == IsPdf(f.name) /\ f.fault = "read"
Readable(f) == (IsTxt(f.name) \/ IsPdf(f.name)) /\ f.fault = "none"
ContentsOf(fl) == [i \in 1..Len(fl) |-> ContentOf(fl[i])]
C6_DirectoryResilience ==
  [][LoadStep =>
      /\ (fs.kind = "dir" /\ \A i \in 1..Len(fs.files) :
                               fs.files[i].fault = "none" \/ ParseFails(fs.files[i])) =>
           /\ status' = "ok"
           /\ documents' = documents \o ContentsOf(SelectSeq(fs.files, Readable))
           /\ Len(loader_metadata') = Len(documents')
           /\ Len(warnings') = Len(SelectSeq(fs.files, ParseFails))
      /\ (fs.kind = "file" /\ ParseFails(fs.files[1])) =>
           /\ status' = "ValueError"
           /\ documents' = documents
  ]_vars
\* one valid .txt, one valid .pdf, one corrupt .pdf: two documents, one warning
C6_Witness ==
  /\ loads = 1
  /\ status = "ok"
  /\ fs.kind = "dir"
  /\ Len(fs.files) = 3
  /\ \E i, j, k \in 1..3 :
       /\ IsTxt(fs.files[i].name) /\ fs.files[i].fault = "none"
       /\ IsPdf(fs.files[j].name) /\ fs.files[j].fault = "none"
       /\ ParseFails(fs.files[k])
  /\ Len(documents) = 2
  /\ Len(warnings) = 1

\* C7: whatever calls were made, and however they ended, documents and
\* metadata have the same length, metadata[i] describes documents[i], and
\* page_count is there exactly for the documents that come from a PDF.
FromPdf(d) == d # <<>> /\ d[1] = PdfName[1]
C7_ParallelLists ==
  /\ Len(documents) = Len(loader_metadata)
  /\ \A i \in 1..Len(documents) :
       LET m == loader_metadata[i]
       IN  /\ ("page_count" \in DOMAIN m) <=> FromPdf(documents[i])
           /\ m.file_type = (IF FromPdf(documents[i]) THEN "pdf" ELSE "txt")
           /\ FromPdf(documents[i]) =>
                documents[i] = PdfContent([name |-> PdfName], m.page_count)

\* the cache key of the latest fetch
FetchKey == CacheKey(fetchArgs.query, fetchArgs.max_papers)
\* a step that is one run of fetch_arxiv_papers
FetchStep == fetches' = fetches + 1

\* C8: the paper search is issued at most once per (query, max_papers) key,
\* and every call with a key returns what the first call with it returned.
C8_SearchOncePerKey ==
  /\ \A k \in Keys : searchCalls[k] <= 1
  /\ arxOp # "none" => fetchReturn = firstReturn[FetchKey]

\* C8 as amended: once a fetch for a key has ended without an exception (its
\* list is in the cache), a later call with that key issues no search,
\* returns that list and leaves the cache alone; a fetch that failed stores
\* nothing, so the next call with its key searches again.
C8_SearchOnceWhenCached ==
  [][FetchStep =>
      LET key == CacheKey(fetchArgs'.query, fetchArgs'.max_papers)
      IN  /\ key \in DOMAIN paper_cache =>
               /\ searchCalls' = searchCalls
               /\ ~searched'
               /\ fetchReturn' = paper_cache[key]
               /\ paper_cache' = paper_cache
          /\ key \notin DOMAIN paper_cache =>
               /\ searchCalls'[key] = searchCalls[key] + 1
               /\ (fetchCaught' # "none") <=> (key \notin DOMAIN paper_cache')
  ]_vars
\* a second call with a key whose papers were fetched: no second search
C8_Witness ==
  /\ arxOp = "fetch"
  /\ ~searched
  /\ fetches >= 2
  /\ searchCalls[FetchKey] = 1
  /\ fetchReturn # <<>>
  /\ fetchReturn = paper_cache[FetchKey]

\* C9: when the search answer holds no parsable paper record the fetch
\* returns the empty list, and create_dynamic_rag returns the fixed message
\* without building an index or calling the chat model.
C9_EmptyPath ==
  (arxOp # "none" /\ searched /\ ~results.raised /\ ParsePapers(results.lines) = <<>>) =>
    /\ fetchReturn = <<>>
    /\ ~fetchRaised
    /\ arxOp = "rag" =>
         /\ rag.answer = NoPapersMessage
         /\ ~rag.indexed
         /\ ~rag.chatted
         /\ ~rag.raised
\* create_dynamic_rag ran on a search answer that has lines but no record
C9_Witness ==
  /\ arxOp = "rag"
  /\ searched
  /\ ~results.raised
  /\ results.lines # <<>>
  /\ ParsePapers(results.lines) = <<>>
  /\ rag.answer = NoPapersMessage

\* C10: no exception leaves fetch_arxiv_papers: when the search raises, or a
\* retained record has a title and a summary but no authors, the call
\* returns the empty list.
LacksAuthors(paper) == "authors" \notin DOMAIN paper
C10_FetchNeverRaises ==
  arxOp # "none" =>
    /\ ~fetchRaised
    /\ fetchCaught # "none" => fetchReturn = <<>>
    /\ (searched /\ results.raised) => (fetchCaught # "none" /\ fetchReturn = <<>>)
    /\ (searched /\ ~results.raised /\
        \E i \in 1..Min(fetchArgs.max_papers, Len(ParsePapers(results.lines))) :
          LacksAuthors(ParsePapers(results.lines)[i])) =>
         (fetchCaught # "none" /\ fetchReturn = <<>>)
\* a record with title and summary and no authors was retained; [] came back
C10_Witness ==
  /\ arxOp = "fetch"
  /\ searched
  /\ ~results.raised
  /\ \E i \in 1..Min(fetchArgs.max_papers, Len(ParsePapers(results.lines))) :
       LET paper == ParsePapers(results.lines)[i]
       IN  LacksAuthors(paper) /\ paper.title # <<>> /\ "summary" \in DOMAIN paper
  /\ fetchCaught = "KeyError"
  /\ fetchReturn = <<>>
  /\ ~fetchRaised

\* C4: split_texts_with_metadata returns as many metadata records as chunks,
\* the chunks of split_texts(texts), for chunk j of text i a record holding
\* every entry of metadata[i] plus chunk_index j, total_chunks and chunk_size,
\* and leaves the caller's metadata maps as they were.
ChunksBefore(sp, ts, i) == Len(SplitTexts(sp, SubSeq(ts, 1, i - 1)))
C4_MetadataPropagation ==
  op = "split_texts_with_metadata" =>
    /\ Len(chunks) = Len(chunk_metadata)
    /\ chunks = SplitTexts(splitter, texts)
    /\ metadata_after = metadata
    /\ \A i \in 1..Len(texts) :
         LET cs == SplitText(splitter, texts[i])
             base == ChunksBefore(splitter, texts, i)
         IN  \A j \in 1..Len(cs) :
               LET r == chunk_metadata[base + j]
               IN  /\ \A key \in DOMAIN metadata[i] :
                        key \in DOMAIN r /\ r[key] = metadata[i][key]
                   /\ r.chunk_index = j - 1
                   /\ r.total_chunks = Len(cs)
                   /\ r.chunk_size = Len(chunks[base + j])

\* ---------------------------------------------------- synthetic data claims
StageOrder ==
  <<"prepare_documents", "generate_simple_questions", "simple_evolution",
    "multi_context_evolution", "reasoning_evolution", "generate_contexts",
    "generate_answers">>
RunStarted == sdg_node \notin {"idle", "ready"}
RunEnded == sdg_node \in {"END", "returned"}
AnyRaised(rs) == \E i \in 1..Len(rs) : rs[i].raised

\* C11: generate_synthetic_data with an empty document list raises an
\* InvalidInput error before any stage runs: no index is built, no model call
\* is made.  With a non-empty list the stages run, and an error that leaves a
\* stage is raised to the caller: nothing is returned in its place.
C11_EmptyInputRejected ==
  /\ (RunStarted /\ sdg_documents = <<>>) =>
       /\ sdg_node = "raised"
       /\ sdg_error \in InvalidInput
       /\ executed = <<>>
       /\ index_builds = 0 /\ llm_calls = 0 /\ ~vectorstore
  /\ (RunStarted /\ sdg_documents # <<>>) =>
       /\ executed # <<>> \/ sdg_node = "prepare_documents"
       /\ sdg_node = "raised" <=> sdg_error # "none"
       /\ sdg_node = "raised" => output = EmptyDict
       /\ sdg_node = "returned" => (executed = StageOrder /\ output # EmptyDict)
C11_Witness ==
  sdg_node = "raised" /\ sdg_documents = <<>> /\ sdg_error = "ValueError"

\* C12: in a run the seven stages execute once each in the order of
\* StageOrder, then END: a stage starts only when exactly the stages before
\* it have run, and item failures change nothing of this.
C12_StageOrder ==
  /\ Len(executed) <= Len(StageOrder)
  /\ executed = SubSeq(StageOrder, 1, Len(executed))
  /\ RunEnded => executed = StageOrder
  /\ \A k \in 1..Len(StageOrder) :
       sdg_node = StageOrder[k] => Len(executed) = k - 1
C12_Witness ==
  /\ sdg_node = "END"
  /\ \E k \in DOMAIN item_log : AnyRaised(item_log[k])
  /\ evolved_questions # <<>>

\* the indices of the items of a stage whose call did not fail, in order
OkIndices(rs) == SelectSeq([i \in 1..Len(rs) |-> i], LAMBDA i : ~rs[i].raised)
\* the stages that log their items in item_log
LogQuestions == "generate_simple_questions"
LogSimple == "simple_evolution"
LogMulti == "multi_context_evolution"
LogReasoning == "reasoning_evolution"
LogContexts == "generate_contexts"
LogAnswers == "generate_answers"
KindOfLog(k) ==
  CASE k = LogSimple -> "simple" [] k = LogMulti -> "multi_context"
    [] k = LogReasoning -> "reasoning"
\* the part of evolved_questions that the evolution stage logged at k made
GroupStart(k) ==
  IF k = LogSimple THEN 0
  ELSE IF k = LogMulti THEN Len(OkIndices(item_log[LogSimple]))
  ELSE Len(OkIndices(item_log[LogSimple])) + Len(OkIndices(item_log[LogMulti]))
Group(k) ==
  PySlice(evolved_questions, GroupStart(k),
          GroupStart(k) + Len(OkIndices(item_log[k])))

\* C13: at the end of a run the evolved questions are the simple-kind
\* entries, then the multi_context entries, then the reasoning entries; each
\* entry carries the kind of the stage that made it and a simple question as
\* original_question; each group follows the order of the simple questions
\* and has at most one entry per simple question.
C13_EvolvedQuestions ==
  RunEnded =>
    /\ Len(evolved_questions) =
         GroupStart(LogReasoning) + Len(OkIndices(item_log[LogReasoning]))
    /\ Len(evolved_questions) <= 3 * Len(simple_questions)
    /\ \A k \in {LogSimple, LogMulti, LogReasoning} :
         LET ok == OkIndices(item_log[k])
         IN  /\ Len(Group(k)) = Len(ok)
             /\ Len(ok) <= Len(simple_questions)
             /\ \A j \in 1..Len(ok) :
                  /\ Group(k)[j].evolution_type = KindOfLog(k)
                  /\ Group(k)[j].original_question = simple_questions[ok[j]]
C13_Witness ==
  /\ RunEnded
  /\ Len(simple_questions) = 2
  /\ \A k \in {LogSimple, LogMulti, LogReasoning} :
       Len(OkIndices(item_log[k])) >= 1
  /\ AnyRaised(item_log[LogSimple])
  /\ Len(OkIndices(item_log[LogReasoning])) = 2

Ids(recs, key) == {recs[i][key] : i \in 1..Len(recs)}
Distinct(recs, key) ==
  \A i, j \in 1..Len(recs) : recs[i][key] = recs[j][key] => i = j

\* C14: at the end of a run there is at most one context and at most one
\* answer per evolved question, each belongs to an evolved question, a
\* question whose context or answer call failed has none of that kind, and
\* the answer call is made for every question: with its context when it has
\* one, with the empty context otherwise.
C14_ContextsAndAnswers ==
  RunEnded =>
    /\ Distinct(contexts, "question_id") /\ Distinct(answers, "question_id")
    /\ Ids(contexts, "question_id") \subseteq Ids(evolved_questions, "id")
    /\ Ids(answers, "question_id") \subseteq Ids(evolved_questions, "id")
    /\ Len(asked) = Len(evolved_questions)
    /\ \A i \in 1..Len(evolved_questions) :
         LET id == evolved_questions[i].id
         IN  /\ item_log[LogContexts][i].raised => id \notin Ids(contexts, "question_id")
             /\ item_log[LogAnswers][i].raised => id \notin Ids(answers, "question_id")
             /\ asked[i].question_id = id
             /\ id \notin Ids(contexts, "question_id") => asked[i].context = <<>>
             /\ \A c \in 1..Len(contexts) :
                  contexts[c].question_id = id => asked[i].context = contexts[c].context
C14_Witness ==
  /\ RunEnded
  /\ \E i \in 1..Len(evolved_questions) :
       /\ item_log[LogContexts][i].raised
       /\ ~item_log[LogAnswers][i].raised
       /\ evolved_questions[i].id \in Ids(answers, "question_id")
  /\ \E i \in 1..Len(evolved_questions) :
       ~item_log[LogContexts][i].raised /\ item_log[LogAnswers][i].raised

\* what one document's response contributes
QuestionsOf(r) == PySlice(ParseQuestions(r.content), 0, config.questions_per_document)

\* C15: a failing item of a stage is skipped and the run goes on: every stage
\* after prepare_documents runs whatever fails, and what a stage leaves is
\* exactly what its non-failing items gave, in input order.
C15_ItemFailuresSkipped ==
  /\ (sdg_node = "raised" /\ sdg_documents # <<>>) => executed = <<"prepare_documents">>
  /\ RunEnded =>
       /\ LET ok == OkIndices(item_log[LogQuestions])
          IN  simple_questions =
                Flatten([j \in 1..Len(ok) |-> QuestionsOf(item_log[LogQuestions][ok[j]])])
       /\ \A k \in {LogSimple, LogMulti, LogReasoning} :
            LET ok == OkIndices(item_log[k])
            IN  [j \in 1..Len(Group(k)) |-> Group(k)[j].question]
                  = [j \in 1..Len(ok) |-> Strip(item_log[k][ok[j]].content)]
       /\ LET ok == OkIndices(item_log[LogContexts])
          IN  [j \in 1..Len(contexts) |-> contexts[j].question_id]
                = [j \in 1..Len(ok) |-> evolved_questions[ok[j]].id]
       /\ LET ok == OkIndices(item_log[LogAnswers])
          IN  /\ [j \in 1..Len(answers) |-> answers[j].question_id]
                   = [j \in 1..Len(ok) |-> evolved_questions[ok[j]].id]
              /\ \A j \in 1..Len(answers) :
                   answers[j].answer = Strip(item_log[LogAnswers][ok[j]].content)
C15_Witness ==
  /\ RunEnded
  /\ \A k \in {LogSimple, LogContexts, LogAnswers} : AnyRaised(item_log[k])
  /\ simple_questions # <<>> /\ contexts # <<>> /\ answers # <<>>
  /\ \E i \in 1..Len(item_log[LogAnswers]) :
       i < Len(item_log[LogAnswers]) /\ item_log[LogAnswers][i].raised
         /\ ~item_log[LogAnswers][i + 1].raised

Questions == Get(synthetic_data, "evolved_questions", <<>>)
RecordsFor(key, id) ==
  LET recs == Get(synthetic_data, key, <<>>)
  IN  {recs[i] : i \in {j \in 1..Len(recs) : recs[j].question_id = id}}

\* C16: the combined dataset has one row per evolved question, in their
\* order, with the question's identifier; the row carries the answer and
\* confidence of an answer record of that identifier and the context,
\* relevance and sources of a context record of that identifier, or else
\* 'No answer', 0.0, 'No context', 0.0 and the empty list; so a record whose
\* identifier is no evolved question's gives no row.
C16_CombinedDataset ==
  synthetic_data # EmptyDict =>
    /\ Len(combined_data) = Len(Questions)
    /\ \A i \in 1..Len(Questions) :
         LET row == combined_data[i]
             as == RecordsFor("answers", Questions[i].id)
             cs == RecordsFor("contexts", Questions[i].id)
         IN  /\ row.id = Questions[i].id
             /\ row.question = Questions[i].question
             /\ row.evolution_type = Questions[i].evolution_type
             /\ IF as = {}
                  THEN row.answer = NoAnswer /\ row.confidence_score = 0
                  ELSE \E a \in as : /\ row.answer = a.answer
                                     /\ row.confidence_score = a.confidence_score
             /\ IF cs = {}
                  THEN /\ row.context = NoContext
                       /\ row.relevance_score = 0
                       /\ row.source_documents = <<>>
                  ELSE \E c \in cs : /\ row.context = c.context
                                     /\ row.relevance_score = c.relevance_score
                                     /\ row.source_documents = c.source_documents
C16_Witness ==
  /\ Len(Questions) = 2
  /\ Len(combined_data) = 2
  /\ Questions[1].id # Questions[2].id
  /\ RecordsFor("answers", Questions[1].id) = {}
  /\ RecordsFor("contexts", Questions[1].id) # {}
  /\ RecordsFor("answers", Questions[2].id) # {}
  /\ RecordsFor("contexts", Questions[2].id) = {}
  /\ combined_data[1].answer = NoAnswer
  /\ combined_data[2].context = NoContext

\* C17: every configuration built by SDGConfig or create_optimized_config
\* has chunk_size > chunk_overlap.
C17_ChunkSizeAboveOverlap ==
  config.chunk_size > config.chunk_overlap

\* ------------------------------------------------------------- agent claims
NodeRan == visited' # visited
LatestRequestsTools(msgs) ==
  /\ msgs # <<>>
  /\ msgs[Len(msgs)].type = "ai"
  /\ msgs[Len(msgs)].tool_calls # <<>>
Ran(n) == \E i \in 1..Len(visited) : visited[i] = n

\* C18: the plain agent's graph starts at agent; from agent it goes to the
\* tool node exactly when the message the model just gave requests tool
\* calls, and ends otherwise; from the tool node it goes back to agent; so
\* the tool node is entered only on a message with tool calls, and END only
\* on a model message without.
C18_PlainAgentRouting ==
  [][ /\ (agent_node = "idle" /\ agent_node' # "idle") => agent_node' = "agent"
      /\ (agent_node = "agent" /\ NodeRan /\ agent_node' # "raised") =>
           /\ messages' # messages
           /\ agent_node' = ToolNodeOf(builder) <=> LatestRequestsTools(messages')
           /\ agent_node' = END <=> ~LatestRequestsTools(messages')
      /\ (agent_node = ToolNodeOf(builder) /\ NodeRan) => agent_node' = "agent"
      /\ (agent_node' = ToolNodeOf(builder') /\ agent_node' # agent_node) =>
           (agent_node = "agent" /\ LatestRequestsTools(messages'))
      /\ (agent_node' = END /\ agent_node # END) =>
           /\ agent_node = "agent"
           /\ messages'[Len(messages')].type = "ai"
           /\ ~LatestRequestsTools(messages')
    ]_vars
C18_Witness ==
  /\ builder \in {"create_langgraph_agent", "build_simple_agent"}
  /\ agent_node = END
  /\ Ran(ToolNodeOf(builder))
  /\ messages[Len(messages)] = AIMessage(<<>>)

\* C19: the guardrail-enforcing agent starts at input_validation, and when
\* input validation marks the state failed the run ends there: neither the
\* model, nor the tools, nor output validation run in it.
C19_InputBlocked ==
  /\ (agent_node # "idle" /\ visited = <<>>) => agent_node = "input_validation"
  /\ visited # <<>> => visited[1] = "input_validation"
  /\ (visited = <<"input_validation">> /\ Get(graph_state, "validation_failed", FALSE)) =>
       input_verdict = "failed"
  /\ input_verdict = "failed" =>
       /\ agent_node = END
       /\ visited = <<"input_validation">>
       /\ ~Ran("agent") /\ ~Ran("action") /\ ~Ran("output_validation")
       /\ model_calls = 0
       /\ messages = <<HumanMessage>>
C19_Witness ==
  /\ builder = "create_guardrails_agent"
  /\ input_verdict = "failed"
  /\ agent_node = END

MayRefine(state) ==
  /\ Get(state, "validation_failed", FALSE)
  /\ Get(state, "needs_refinement", FALSE)
  /\ Get(state, "refinement_count", 0) < agent_params.max_refinements

\* C20: in the guardrail-enforcing agent, agent is followed by action when
\* the model's message requests tool calls and by output_validation
\* otherwise; action is followed by agent; output_validation is followed by
\* agent when the state is failed, needs refinement and the refinement
\* counter is below max_refinements, and by END otherwise.
C20_GuardrailsRouting ==
  [][ /\ (agent_node = "agent" /\ NodeRan /\ agent_node' # "raised") =>
           /\ agent_node' = "action" <=> LatestRequestsTools(messages')
           /\ agent_node' = "output_validation" <=> ~LatestRequestsTools(messages')
      /\ (agent_node = "action" /\ NodeRan) => agent_node' = "agent"
      /\ (agent_node = "output_validation" /\ NodeRan) =>
           /\ agent_node' = "agent" <=> MayRefine(graph_state')
           /\ agent_node' = END <=> ~MayRefine(graph_state')
    ]_vars
C20_Witness ==
  /\ builder = "create_guardrails_agent"
  /\ agent_node = END
  /\ Ran("action")
  /\ \E i \in 1..(Len(visited) - 1) :
       visited[i] = "output_validation" /\ visited[i + 1] = "agent"
  /\ Get(graph_state, "validation_failed", FALSE)
  /\ Get(graph_state, "refinement_count", 0) = agent_params.max_refinements

\* the positions of visited at which output_validation ran and the graph went
\* back to agent
RefinementTrips ==
  { i \in 1..Len(visited) :
      /\ visited[i] = "output_validation"
      /\ IF i < Len(visited) THEN visited[i + 1] = "agent" ELSE agent_node = "agent" }
OutputValidations == { i \in 1..Len(visited) : visited[i] = "output_validation" }

GuardrailsNodes == {"input_validation", "agent", "action", "output_validation"}

\* C22: every run of the guardrail-enforcing agent reaches END, whatever the
\* model, the tools and the guards do; so a run that has stopped (no node is
\* left to run) has stopped at END.
C22_StopsOnlyAtEnd ==
  (builder = "create_guardrails_agent" /\ agent_node \notin GuardrailsNodes) =>
     agent_node = END

\* ---------------------------------------------------------- utility claims
\* C23: call_general_agent_via_a2a never raises past the tool boundary: when
\* the session, the card resolution or the message send raises or times out,
\* the tool returns a string.
C23_ToolNeverRaises ==
  \A i \in 1..Len(a2a_calls) :
    /\ ~a2a_calls[i].result.raised
    /\ a2a_calls[i].result.ret # "none"

\* a logged validation whose guard did not pass the text
GuardFailed(v) == v.outcome.raises # "none" \/ ~v.outcome.validation_passed

\* C24: with raise_on_failure = False, validate_input and validate_output
\* never raise, and every failure (a failing check or an error thrown by the
\* guard) is returned with validation_passed = false; with raise_on_failure =
\* True every failing validation is raised and never returned.
C24_FailureSurfacing ==
  \A i \in 1..Len(validations) :
    LET v == validations[i]
    IN  /\ ~v.raise_on_failure =>
             /\ ~v.result.raised
             /\ GuardFailed(v) => v.result.ret.validation_passed = FALSE
        /\ (v.raise_on_failure /\ GuardFailed(v)) => v.result.raised

\* the first non-empty string of a sequence of strings, <<>> when there is none
RECURSIVE FirstNonEmpty(_)
FirstNonEmpty(sources) ==
  IF sources = <<>> THEN <<>>
  ELSE IF Head(sources) # <<>> THEN Head(sources)
  ELSE FirstNonEmpty(Tail(sources))
\* what the environment variable, the argument and the prompt yield in a run
KeySources(run) ==
  << IF "GUARDRAILS_API_KEY" \in DOMAIN run.environ
       THEN run.environ["GUARDRAILS_API_KEY"] ELSE <<>>,
     IF Len(run.argv) >= 2 THEN run.argv[2] ELSE <<>>,
     IF run.typed.eof THEN <<>> ELSE Strip(run.typed.text) >>

\* C25: the credential utility takes the key from the environment variable,
\* then the argument, then the prompt, the first that is not empty; with no
\* key it exits with status 1 and leaves the credentials file alone; with a
\* key it writes exactly {"api_key": key} to .guardrails/credentials.json,
\* over any file that was there.
C25_CredentialResolution ==
  [][ cred_runs' # cred_runs =>
        LET key == FirstNonEmpty(KeySources(cred_run'))
        IN  IF key = <<>>
              THEN cred_run'.exit = 1 /\ cred_fs' = cred_fs
              ELSE /\ cred_run'.exit = 0
                   /\ cred_fs'.dir
                   /\ cred_fs'.file = [exists |-> TRUE, content |-> [api_key |-> key]]
    ]_vars
C25_Witness ==
  /\ cred_runs = 2
  /\ cred_run.before.file.exists
  /\ cred_run.environ = [GUARDRAILS_API_KEY |-> <<>>]
  /\ cred_run.argv = <<ProgramName, <<"a">>>>
  /\ cred_run.exit = 0
  /\ cred_fs.file.content = [api_key |-> <<"a">>]
  /\ cred_run.before.file.content # cred_fs.file.content

\* ---------------------------------------------------- paper parsing claims
\* the records of a search answer, told from the lines alone: line i closes a
\* record when it is a Summary: line and the latest Title: line since the
\* record closed before it (or since the start) carries a title
IsField(line, field) == line # <<>> /\ Head(line) = field
FieldOf(line) == Strip(Tail(line))
RECURSIVE ClosesRecord(_, _)
RecordStart(lines, i) ==
  LET closed == {k \in 1..(i - 1) : ClosesRecord(lines, k)}
  IN  IF closed = {} THEN 1 ELSE (CHOOSE k \in closed : \A m \in closed : m <= k) + 1
LatestSince(lines, i, field) ==
  LET seen == {j \in RecordStart(lines, i)..(i - 1) : IsField(lines[j], field)}
  IN  IF seen = {} THEN <<>>
      ELSE FieldOf(lines[CHOOSE j \in seen : \A m \in seen : m <= j])
ClosesRecord(lines, i) ==
  IsField(lines[i], "Summary:") /\ LatestSince(lines, i, "Title:") # <<>>
\* the closing lines in encounter order
RECURSIVE Ascending(_)
Ascending(S) ==
  IF S = {} THEN <<>>
  ELSE LET least == CHOOSE k \in S : \A m \in S : k <= m
       IN  <<least>> \o Ascending(S \ {least})
ClosingLines(lines) == Ascending({i \in 1..Len(lines) : ClosesRecord(lines, i)})

\* C26: for any search answer, a record is appended only at a Summary: line
\* with a title captured since the last appended record; the documents
\* returned are the first max_papers appended records in encounter order,
\* each with the body 'Title: ..\nAuthors: ..\nSummary: ..' and the source
\* label arxiv_paper_<position>, positions counted from 1.
C26_ParsedDocuments ==
  (arxOp # "none" /\ searched /\ ~results.raised) =>
    LET closing == ClosingLines(results.lines)
        n == Min(fetchArgs.max_papers, Len(closing))
    IN  /\ Len(fetchReturn) = n
        /\ \A p \in 1..n :
             LET title == LatestSince(results.lines, closing[p], "Title:")
                 authors == LatestSince(results.lines, closing[p], "Authors:")
                 summary == FieldOf(results.lines[closing[p]])
             IN  /\ fetchReturn[p].page_content =
                      <<"Title: ">> \o title \o <<"\nAuthors: ">> \o authors
                        \o <<"\nSummary: ">> \o summary
                 /\ fetchReturn[p].metadata.source = <<"arxiv_paper_", Digit(p)>>

\* ------------------------------------------------------ guardrails node claim
\* the guard the node has to use on a history: the input guard for a latest
\* message of the user, the output guard for one of the agent, if given
LatestMessage(run) == run.messages[Len(run.messages)]
GuardDue(run) ==
  IF run.messages = <<>> THEN "none"
  ELSE IF LatestMessage(run).type = "human" /\ run.input_guard # NoGuard THEN "input"
  ELSE IF LatestMessage(run).type = "ai" /\ run.output_guard # NoGuard THEN "output"
  ELSE "none"
GuardOf(run) == IF GuardDue(run) = "input" THEN run.input_guard ELSE run.output_guard
\* what the validation function gives the node for that check
ValidationOf(run) ==
  IF GuardDue(run) = "input"
    THEN ValidateInput(run.input_guard, LatestMessage(run).content, run.strict_mode)
    ELSE ValidateOutput(run.output_guard, LatestMessage(run).content, None,
                        run.strict_mode)
First(content, n) == SubSeq(content, 1, IF Len(content) < n THEN Len(content) ELSE n)

\* C27: the guardrails node validates the latest message only: with the input
\* guard when it is from the user, with the output guard when it is from the
\* agent, and not at all otherwise; it records one {type, passed, excerpt}
\* entry per check performed; in non-strict mode it never raises and records
\* a {type: error} entry for a validation that threw; in strict mode a
\* failing validation is raised out of the node.
C27_GuardrailsNode ==
  node_run.ran =>
    LET out == node_run.outcome
        due == GuardDue(node_run)
    IN  /\ due = "none" =>
             /\ out.calls = <<>>
             /\ ~out.raised
             /\ out.ret.validation_results = <<>>
        /\ due # "none" =>
             out.calls = <<[guard |-> due, text |-> LatestMessage(node_run).content]>>
        /\ ~node_run.strict_mode => ~out.raised
        /\ (node_run.strict_mode /\ due # "none"
              /\ (GuardOf(node_run).raises # "none"
                    \/ ~GuardOf(node_run).validation_passed)) => out.raised
        /\ (due # "none" /\ ~out.raised) =>
             /\ Len(out.ret.validation_results) = 1
             /\ LET entry == out.ret.validation_results[1]
                    v == ValidationOf(node_run)
                IN  IF v.raised
                      THEN /\ DOMAIN entry = {"type", "passed", "error"}
                           /\ entry.type = "error"
                           /\ ~entry.passed
                      ELSE entry =
                             [type |-> due, passed |-> v.ret.validation_passed,
                              message |-> First(LatestMessage(node_run).content,
                                                ExcerptLength)]
\* a non-strict node whose output validation threw recorded an error entry
C27_Witness ==
  /\ node_run.ran
  /\ ~node_run.strict_mode
  /\ node_run.messages # <<>>
  /\ LatestMessage(node_run) = Message("ai", LongContent)
  /\ node_run.outcome.calls # <<>>
  /\ ~node_run.outcome.raised
  /\ node_run.outcome.ret.validation_results[1].type = "error"

\* -------------------------------------------------------- stage frame claim
\* the stage a step runs, and whether a state field is among those it names
StageRun == executed'[Len(executed')]
Owns(stage, field) ==
  CASE stage = "prepare_documents" -> field \in {"vectorstore", "stats"}
    [] stage = "generate_simple_questions" -> field = "simple_questions"
    [] stage \in {"simple_evolution", "multi_context_evolution", "reasoning_evolution"} ->
         field = "evolved_questions"
    [] stage = "generate_contexts" -> field = "contexts"
    [] stage = "generate_answers" -> field = "answers"
IsPrefix(a, b) == Len(a) <= Len(b) /\ SubSeq(b, 1, Len(a)) = a

\* C28: a stage writes only the state fields it names and leaves the others
\* as they were; multi_context and reasoning only append to
\* evolved_questions, so the earlier entries stay, unmodified and in order,
\* as a prefix; simple_questions does not change after stage 2.
C28_StageFrames ==
  [][ executed' # executed =>
        /\ sdg_documents' = sdg_documents
        /\ config' = config
        /\ ~Owns(StageRun, "vectorstore") => vectorstore' = vectorstore
        /\ ~Owns(StageRun, "stats") => stats' = stats
        /\ ~Owns(StageRun, "simple_questions") => simple_questions' = simple_questions
        /\ ~Owns(StageRun, "evolved_questions") => evolved_questions' = evolved_questions
        /\ ~Owns(StageRun, "contexts") => contexts' = contexts
        /\ ~Owns(StageRun, "answers") => answers' = answers
        /\ StageRun \in {"multi_context_evolution", "reasoning_evolution"} =>
             IsPrefix(evolved_questions, evolved_questions')
        /\ Len(executed) >= 2 => simple_questions' = simple_questions
    ]_vars
\* a finished run whose collection holds entries of the three evolution
\* stages, in stage order
C28_Witness ==
  /\ RunEnded
  /\ simple_questions # <<>>
  /\ Len(evolved_questions) >= 3
  /\ evolved_questions[1].evolution_type = "simple"
  /\ evolved_questions[2].evolution_type = "multi_context"
  /\ evolved_questions[Len(evolved_questions)].evolution_type = "reasoning"
  /\ contexts # <<>>
  /\ answers # <<>>

\* ------------------------------------------------------- paper cache claim
\* the (query, max_papers) pairs a call can be made with
FetchPairs == Queries \X MaxPapersChoices

\* C29: paper_cache is written exactly when a fetch completes without an
\* exception: a fetch that raised inside leaves it unchanged, so the next
\* call with the key searches again; a completed fetch, one that parsed no
\* record included, stores its list under the key, so the empty list is
\* served from the cache afterwards; entries are never removed or replaced,
\* and distinct (query, max_papers) pairs never share an entry.
C29_CacheWrites ==
  [][FetchStep =>
      LET pair == <<fetchArgs'.query, fetchArgs'.max_papers>>
          key == pair[1] \o <<"_", Digit(pair[2])>>
      IN  /\ \A k \in DOMAIN paper_cache :
               k \in DOMAIN paper_cache' /\ paper_cache'[k] = paper_cache[k]
          /\ DOMAIN paper_cache' \subseteq (DOMAIN paper_cache) \cup {key}
          /\ key \in DOMAIN paper_cache =>
               /\ ~searched'
               /\ fetchReturn' = paper_cache[key]
          /\ key \notin DOMAIN paper_cache =>
               /\ searched'
               /\ IF fetchCaught' # "none"
                    THEN paper_cache' = paper_cache
                    ELSE key \in DOMAIN paper_cache' /\ paper_cache'[key] = fetchReturn'
          /\ \A other \in FetchPairs :
               other # pair => CacheKey(other[1], other[2]) # key
  ]_vars
\* an answer without any record was fetched and stored, and a later call with
\* the key was served the empty list from the cache
C29_Witness ==
  /\ arxOp = "fetch"
  /\ fetches >= 2
  /\ ~searched
  /\ FetchKey \in DOMAIN paper_cache
  /\ paper_cache[FetchKey] = <<>>
  /\ fetchReturn = <<>>
  /\ searchCalls[FetchKey] = 1

\* ------------------------------------------------------ chunk count claim
\* the first n characters of a chunk (all of it when it is shorter)
Leading(chunk, n) == SubSeq(chunk, 1, IF Len(chunk) < n THEN Len(chunk) ELSE n)
RECURSIVE Concatenation(_)
Concatenation(parts) ==
  IF parts = <<>> THEN <<>> ELSE Head(parts) \o Concatenation(Tail(parts))

\* C30: for a text of length L and 0 <= chunk_overlap O < chunk_size S,
\* split returns exactly ceil(L / (S-O)) chunks, none for the empty text, and
\* the first S-O characters of the chunks, concatenated in order, are the
\* text.
C30_ChunkCount ==
  (op = "split" /\ splitter.chunk_overlap >= 0) =>
    LET L == Len(texts[1])
        stride == splitter.chunk_size - splitter.chunk_overlap
        n == Len(chunks)
    IN  /\ n * stride >= L
        /\ n > 0 => (n - 1) * stride < L
        /\ L = 0 => chunks = <<>>
        /\ Concatenation([k \in 1..n |-> Leading(chunks[k], stride)]) = texts[1]
\* an overlap, a length that the stride does not divide, three chunks or more
C30_Witness ==
  /\ op = "split"
  /\ splitter.chunk_overlap > 0
  /\ Len(chunks) >= 3
  /\ Len(texts[1]) % (splitter.chunk_size - splitter.chunk_overlap) # 0
  /\ Len(chunks[Len(chunks)]) < splitter.chunk_size - splitter.chunk_overlap

====
